---- MODULE Spec2Model ----
(***************************************************************************)
(* A model of the feecc workbench daemon: the WorkBench state machine      *)
(* (WorkBench.py), the Unit entity (Unit.py) and the MongoDB gateway       *)
(* (database.py).  Every WorkBench method is a pure operator from a        *)
(* workbench value to the workbench value it leaves behind together with   *)
(* the exception it raised (None when it returned); an action applies one  *)
(* method to the current state, so a method that raises half way leaves    *)
(* exactly the mutations the code made before the raise.                   *)
(***************************************************************************)
EXTENDS Integers, Sequences, FiniteSets, TLC

\* state, employee, unit: the fields of the WorkBench object; units: the
\* heap of Unit objects; db: the Unit-data and Production-stages-data
\* collections; last: the last call that changed anything, how it ended and
\* the states it switched through; steps: the number of such calls so far;
\* now: the clock, dt.datetime.now(); tasks: the coroutines of the event
\* loop that are suspended at an await, and the detached tasks
VARIABLES state, employee, unit, units, db, last, steps, now, tasks

vars == <<state, employee, unit, units, db, last, steps, now, tasks>>

(* ------------------------------------------------------------------ *)
(* Bounds                                                             *)
(* ------------------------------------------------------------------ *)

\* the number of Unit objects that can exist (stored ones included)
MaxUnits == 3

\* the longest biography (premature endings insert duplicated stages)
MaxBio == 3

\* the number of calls of one run that change anything
MaxSteps == 5

\* the latest time of the clock
MaxTime == 12

\* the number of coroutines and detached tasks in flight at a time
MaxTasks == 2

(* ------------------------------------------------------------------ *)
(* Values                                                             *)
(* ------------------------------------------------------------------ *)

None == "None"

\* self.unit = None: Unit objects are named by their position in the heap
\* units (1, 2, ...), and 0 names no unit
NoUnit == 0

Employees == {"e1", "e2"}

\* states.State
AWAIT_LOGIN_STATE == "AwaitLogin"

AUTHORIZED_IDLING_STATE == "AuthorizedIdling"

UNIT_ASSIGNED_IDLING_STATE == "UnitAssignedIdling"

GATHER_COMPONENTS_STATE == "GatherComponents"

PRODUCTION_STAGE_ONGOING_STATE == "ProductionStageOngoing"

State == {AWAIT_LOGIN_STATE, AUTHORIZED_IDLING_STATE, UNIT_ASSIGNED_IDLING_STATE,
          GATHER_COMPONENTS_STATE, PRODUCTION_STAGE_ONGOING_STATE}

\* states.STATE_TRANSITION_MAP (states.py is not among the sources; the
\* table is the one of the specification, section 4.1)
STATE_TRANSITION_MAP ==
    [s \in State |->
        CASE s = AWAIT_LOGIN_STATE -> {AUTHORIZED_IDLING_STATE}
          [] s = AUTHORIZED_IDLING_STATE ->
                {AWAIT_LOGIN_STATE, UNIT_ASSIGNED_IDLING_STATE, GATHER_COMPONENTS_STATE}
          [] s = UNIT_ASSIGNED_IDLING_STATE ->
                {AUTHORIZED_IDLING_STATE, PRODUCTION_STAGE_ONGOING_STATE}
          [] s = GATHER_COMPONENTS_STATE ->
                {AUTHORIZED_IDLING_STATE, UNIT_ASSIGNED_IDLING_STATE}
          [] s = PRODUCTION_STAGE_ONGOING_STATE -> {UNIT_ASSIGNED_IDLING_STATE}]

\* unit_utils.UnitStatus
UnitStatus == {"production", "built", "revision"}

\* exceptions
StateForbiddenError == "StateForbiddenError"

AssertionError == "AssertionError"

\* the ValueErrors of Unit.assign_component, one per message
ValueError_NotCompleted == "ValueError: assembly is not completed"

ValueError_AlreadyUsed == "ValueError: has already been used in unit"

ValueError_AlreadyAssigned == "ValueError: is already assigned to a composite Unit"

ValueError_NotAComponent == "ValueError: it's not a component of it"

\* the ValueError of Unit.end_operation
ValueError_NoPending == "ValueError: No pending operations found"

IndexError == "IndexError"

\* a failure of an external collaborator (camera, printer, IPFS, MongoDB)
ExternalError == "ExternalError"

\* AttributeError: an attribute of None (self.unit, employee) is read
AttributeError == "AttributeError"

\* exceptions.UnitNotFoundError
UnitNotFoundError == "UnitNotFoundError"

\* the ValueError of MongoDbWrapper.get_schema_by_id
ValueError_SchemaNotFound == "ValueError: Schema not found"

\* models.ProductionSchema: the reference data of the Production-schemas
\* collection.  simple_unit and composite_unit are the schemas of
\* tests/test_api.py; stages is the number of stage templates.  The list of
\* required ids is a tp.List[str]: twin names the same schema twice.
Schemas ==
    [simple    |-> [stages |-> 0, required_components_schema_ids |-> <<>>],
     staged    |-> [stages |-> 2, required_components_schema_ids |-> <<>>],
     composite |-> [stages |-> 1, required_components_schema_ids |-> <<"simple">>],
     double    |-> [stages |-> 0,
                    required_components_schema_ids |-> <<"simple", "staged">>],
     twin      |-> [stages |-> 0,
                    required_components_schema_ids |-> <<"simple", "simple">>]]

SchemaIds == DOMAIN Schemas

\* Types.AdditionalInfo values handed to start_operation and end_operation
\* (a dict is the set of its <<key, value>> items; None and {} are both the
\* empty set, which the code does not tell apart: `if additional_info:`)
InfoStart == {<<"start", "s">>}

InfoEnd == {<<"end", "e">>}

\* the additional_info of WorkBench.shutdown
InfoShutdown == {<<"Ended reason", "Unfinished when Workbench shutdown sequence initiated">>}

\* {**a, **b}
MergeInfo(a, b) == b \cup {p \in a : \A q \in b : q[1] # p[1]}

(* ------------------------------------------------------------------ *)
(* Unit.py                                                            *)
(* ------------------------------------------------------------------ *)

\* a Python list: the items of f, a function on 1..n, written out as a
\* sequence
List(f) == SubSeq(f, 1, Len(f))

\* ProductionStage(name, parent_unit_uuid, number, schema_stage_id): the
\* dataclass is not among the sources; its fields are the ones Unit.py and
\* database.py read and write.  id stands for the stage's uuid.
ProductionStage(id, name, parent, number, schema_stage_id) ==
    [id |-> id, name |-> name, parent_unit_uuid |-> parent, number |-> number,
     schema_stage_id |-> schema_stage_id,
     session_start_time |-> None, session_end_time |-> None,
     employee_name |-> None, additional_info |-> {}, video_hashes |-> <<>>,
     completed |-> FALSE, ended_prematurely |-> FALSE, is_in_db |-> FALSE]

\* unit_utils.biography_factory: one stage per stage template of the schema,
\* numbered from 0
biography_factory(schema, uuid) ==
    List([i \in 1..Schemas[schema].stages |->
            ProductionStage(<<uuid, i>>, <<"stage">>, uuid, i - 1, i)])

\* Unit.__init__ for a new unit: Unit(schema)
NewUnit(schema, uuid) ==
    [schema |-> schema,
     uuid |-> uuid,
     status |-> IF Schemas[schema].stages = 0 THEN "built" ELSE "production",
     passport_short_url |-> None,
     passport_ipfs_cid |-> None,
     components_units |-> <<>>,
     featured_in_int_id |-> NoUnit,
     employee |-> None,
     biography |-> biography_factory(schema, uuid),
     is_in_db |-> FALSE]

\* Unit.internal_id: derived from the uuid alone; the model uses the uuid
internal_id(u) == u.uuid

\* Unit.components_schema_ids
components_schema_ids(u) == Schemas[u.schema].required_components_schema_ids

\* Unit.components_filled
components_filled(u) ==
    IF components_schema_ids(u) # <<>>
    THEN IF u.components_units = <<>>
         THEN FALSE
         ELSE Len(components_schema_ids(u)) = Len(u.components_units)
    ELSE TRUE

\* Unit.next_pending_operation: the position in the biography of the first
\* stage that is not completed, 0 for None
next_pending_operation(u) ==
    LET pending == {i \in 1..Len(u.biography) : ~u.biography[i].completed}
    IN IF pending = {} THEN 0
       ELSE CHOOSE i \in pending : \A j \in pending : i <= j

\* self.biography[operation.number] = operation, for the operation found at
\* position pos: the list holds the mutated object at pos and, again, at
\* index operation.number; an index past the end raises IndexError
StoreOperation(bio, pos, op) ==
    IF op.number + 1 \in 1..Len(bio)
    THEN [bio |-> [[bio EXCEPT ![pos] = op] EXCEPT ![op.number + 1] = op], exc |-> None]
    ELSE [bio |-> [bio EXCEPT ![pos] = op], exc |-> IndexError]

\* assign_component that takes a component that is already used elsewhere
Unit_assign_component_reuses(us, uid, cid) ==
    LET self == us[uid]
        component == us[cid]
    IN IF components_filled(self)
       THEN [units |-> us, exc |-> None]
       ELSE IF \E i \in 1..Len(components_schema_ids(self)) :
                    components_schema_ids(self)[i] = component.schema
       THEN IF \A i \in 1..Len(self.components_units) :
                    us[self.components_units[i]].schema # component.schema
            THEN IF component.status # "built"
                 THEN [units |-> us, exc |-> ValueError_NotCompleted]
                 ELSE [units |->
                          [us EXCEPT ![uid].components_units = Append(@, cid),
                                     ![cid].featured_in_int_id = internal_id(self)],
                       exc |-> None]
            ELSE [units |-> us, exc |-> ValueError_AlreadyAssigned]
       ELSE [units |-> us, exc |-> ValueError_NotAComponent]

\* assign_component that attaches the component without marking it as used
Unit_assign_component_unmarked(us, uid, cid) ==
    LET self == us[uid]
        component == us[cid]
    IN IF components_filled(self)
       THEN [units |-> us, exc |-> None]
       ELSE IF \E i \in 1..Len(components_schema_ids(self)) :
                    components_schema_ids(self)[i] = component.schema
       THEN IF \A i \in 1..Len(self.components_units) :
                    us[self.components_units[i]].schema # component.schema
            THEN IF component.status # "built"
                 THEN [units |-> us, exc |-> ValueError_NotCompleted]
                 ELSE IF component.featured_in_int_id # NoUnit
                 THEN [units |-> us, exc |-> ValueError_AlreadyUsed]
                 ELSE [units |-> [us EXCEPT ![uid].components_units = Append(@, cid)],
                       exc |-> None]
            ELSE [units |-> us, exc |-> ValueError_AlreadyAssigned]
       ELSE [units |-> us, exc |-> ValueError_NotAComponent]

\* Unit.assign_component: self is units[uid], component is units[cid]
Unit_assign_component(us, uid, cid) ==
    LET self == us[uid]
        component == us[cid]
    IN IF components_filled(self)
       THEN [units |-> us, exc |-> None]
       ELSE IF \E i \in 1..Len(components_schema_ids(self)) :
                    components_schema_ids(self)[i] = component.schema
       THEN IF \A i \in 1..Len(self.components_units) :
                    us[self.components_units[i]].schema # component.schema
            THEN IF component.status # "built"
                 THEN [units |-> us, exc |-> ValueError_NotCompleted]
                 ELSE IF component.featured_in_int_id # NoUnit
                 THEN [units |-> us, exc |-> ValueError_AlreadyUsed]
                 ELSE [units |->
                          [us EXCEPT ![uid].components_units = Append(@, cid),
                                     ![cid].featured_in_int_id = internal_id(self)],
                       exc |-> None]
            ELSE [units |-> us, exc |-> ValueError_AlreadyAssigned]
       ELSE [units |-> us, exc |-> ValueError_NotAComponent]

\* start_operation that takes the first entry of the biography, pending or not
Unit_start_operation_first_entry(u, emp, additional_info) ==
    IF u.biography = <<>>
    THEN [unit |-> u, exc |-> AssertionError]
    ELSE LET operation == [u.biography[1] EXCEPT
                              !.session_start_time = "started",
                              !.additional_info = additional_info,
                              !.employee_name = emp]
             stored == StoreOperation(u.biography, 1, operation)
         IN [unit |-> [u EXCEPT !.biography = stored.bio], exc |-> stored.exc]

\* Unit.start_operation
Unit_start_operation(u, emp, additional_info) ==
    LET pos == next_pending_operation(u)
    IN IF pos = 0
       THEN [unit |-> u, exc |-> AssertionError]
       ELSE LET operation == [u.biography[pos] EXCEPT
                                 !.session_start_time = "started",
                                 !.additional_info = additional_info,
                                 !.employee_name = emp]
                stored == StoreOperation(u.biography, pos, operation)
            IN [unit |-> [u EXCEPT !.biography = stored.bio], exc |-> stored.exc]

\* _duplicate_current_operation without the loop that renumbers the stages
\* after the duplicate
duplicate_current_operation_no_renumber(u) ==
    LET cur_stage == u.biography[next_pending_operation(u)]
        target_pos == cur_stage.number + 1
        dup_operation == ProductionStage(<<u.uuid, Len(u.biography) + 1>>,
                                         cur_stage.name,
                                         cur_stage.parent_unit_uuid, target_pos,
                                         cur_stage.schema_stage_id)
        at == IF target_pos > Len(u.biography) THEN Len(u.biography) ELSE target_pos
    IN SubSeq(u.biography, 1, at) \o <<dup_operation>>
       \o SubSeq(u.biography, at + 1, Len(u.biography))

\* Unit._duplicate_current_operation: the biography with a fresh copy of the
\* next pending stage inserted after it and the later stages renumbered
duplicate_current_operation(u) ==
    LET pos == next_pending_operation(u)
        cur_stage == u.biography[pos]
        target_pos == cur_stage.number + 1
        dup_operation == ProductionStage(<<u.uuid, Len(u.biography) + 1>>, cur_stage.name,
                                         cur_stage.parent_unit_uuid, target_pos,
                                         cur_stage.schema_stage_id)
        \* list.insert(target_pos, x): a 0-based index, clamped to the length
        at == IF target_pos > Len(u.biography) THEN Len(u.biography) ELSE target_pos
        inserted == SubSeq(u.biography, 1, at) \o <<dup_operation>>
                    \o SubSeq(u.biography, at + 1, Len(u.biography))
    IN List([i \in 1..Len(inserted) |->
                IF i - 1 >= target_pos + 1
                THEN [inserted[i] EXCEPT !.number = @ + 1]
                ELSE inserted[i]])

\* Unit.end_operation from `operation.session_end_time = ...` on: the stage at
\* position pos of biography bio (the unit's, with the duplicate in it when
\* the ending is premature) is ended and stored, and the unit's status set
end_pending_operation(u, bio, pos, video_hashes, additional_info, premature) ==
    LET operation ==
            [bio[pos] EXCEPT
                !.session_end_time = "ended",
                !.name = IF premature THEN Append(@, "premature") ELSE @,
                !.ended_prematurely = IF premature THEN TRUE ELSE @,
                !.video_hashes = IF video_hashes # <<>> THEN video_hashes ELSE @,
                !.additional_info =
                    IF additional_info # {} THEN MergeInfo(@, additional_info) ELSE @,
                !.completed = TRUE]
        stored == StoreOperation(bio, pos, operation)
        all_completed == \A i \in 1..Len(stored.bio) : stored.bio[i].completed
    IN IF stored.exc # None
       THEN [unit |-> [u EXCEPT !.biography = stored.bio], exc |-> stored.exc]
       ELSE [unit |-> [u EXCEPT !.biography = stored.bio,
                                !.status = IF all_completed THEN "built" ELSE @,
                                !.employee = None],
             exc |-> None]

\* Unit.end_operation, the body of the coroutine: what awaiting it does
Unit_end_operation(u, video_hashes, additional_info, premature) ==
    LET pos == next_pending_operation(u)
    IN IF pos = 0
       THEN [unit |-> u, exc |-> ValueError_NoPending]
       ELSE IF premature
       THEN end_pending_operation(
                u, duplicate_current_operation(u),
                \* where the stage being ended sits once the duplicate is in
                IF pos - 1 >= u.biography[pos].number + 1 THEN pos + 1 ELSE pos,
                video_hashes, additional_info, premature)
       ELSE end_pending_operation(u, u.biography, pos,
                                  video_hashes, additional_info, premature)

\* utils.TIMESTAMP_FORMAT and utils.timestamp are not among the sources.  The
\* clock counts TicksPerMinute ticks a minute and a timestamp is the text of
\* a time in whole minutes.
TicksPerMinute == 2

\* the texts of the minutes 0, 1, 2, ...
TIMESTAMPS == <<"00:00", "00:01", "00:02", "00:03", "00:04", "00:05", "00:06", "00:07">>

\* utils.timestamp() at time t of the clock: t.strftime(TIMESTAMP_FORMAT)
timestamp(t) == TIMESTAMPS[(t \div TicksPerMinute) + 1]

\* dt.datetime.strptime(stamp, TIMESTAMP_FORMAT), in ticks
strptime(stamp) ==
    ((CHOOSE i \in 1..Len(TIMESTAMPS) : TIMESTAMPS[i] = stamp) - 1) * TicksPerMinute

\* stage_len that takes the current time for the end of every stage
stage_len_until_now(stage, t) ==
    IF stage.session_start_time = None
    THEN 0
    ELSE t - strptime(stage.session_start_time)

\* stage_len of Unit.total_assembly_time, at time t of the clock
stage_len(stage, t) ==
    IF stage.session_start_time = None
    THEN 0
    ELSE (IF stage.session_end_time # None
          THEN strptime(stage.session_end_time)
          ELSE t)
         - strptime(stage.session_start_time)

\* Unit.total_assembly_time at time t of the clock, in ticks:
\* reduce(add, ...) over the biography, timedelta(0) for an empty one
total_assembly_time(u, t) ==
    LET RECURSIVE reduce(_)
        reduce(i) ==
            IF i = 1 THEN stage_len(u.biography[1], t)
            ELSE reduce(i - 1) + stage_len(u.biography[i], t)
    IN IF u.biography # <<>> THEN reduce(Len(u.biography)) ELSE 0

(* ------------------------------------------------------------------ *)
(* database.py                                                        *)
(* ------------------------------------------------------------------ *)

\* A synchronisation runs on st = [units, db, writes, faults, exc]: the heap
\* of Unit objects, the two collections, the number of requests sent to
\* MongoDB so far, the requests that fail (by their ordinal) and the
\* exception raised, after which nothing more is executed.
Sync(us, d, faults) ==
    [units |-> us, db |-> d, writes |-> 0, faults |-> faults, exc |-> None]

\* one request to MongoDB that leaves the collections as newdb
DbWrite(st, newdb) ==
    IF st.exc # None THEN st
    ELSE IF (st.writes + 1) \in st.faults
    THEN [st EXCEPT !.writes = @ + 1, !.exc = ExternalError]
    ELSE [st EXCEPT !.writes = @ + 1, !.db = newdb]

\* MongoDbWrapper._upload_dict: collection_.insert_one(document)
upload_dict(st, collection, document) ==
    DbWrite(st, [st.db EXCEPT ![collection] = Append(@, document)])

\* MongoDbWrapper._update_document: find_one_and_update({key: value},
\* {"$set": new_document}) rewrites the first matching document, if any
update_document(st, key, value, new_document, collection) ==
    LET coll == st.db[collection]
        hits == {i \in 1..Len(coll) : coll[i][key] = value}
    IN DbWrite(st,
               IF hits = {} THEN st.db
               ELSE LET first == CHOOSE i \in hits : \A j \in hits : i <= j
                        old == coll[first]
                    IN [st.db EXCEPT ![collection][first] =
                            IF DOMAIN old \subseteq DOMAIN new_document
                            THEN new_document
                            ELSE [f \in DOMAIN old \cup DOMAIN new_document |->
                                    IF f \in DOMAIN new_document
                                    THEN new_document[f] ELSE old[f]]])

\* Unit.dict_data (not among the sources): the persisted document of the
\* specification, section 6
dict_data(u) ==
    [uuid |-> u.uuid,
     internal_id |-> internal_id(u),
     schema_id |-> u.schema,
     status |-> u.status,
     components_internal_ids |-> u.components_units,
     featured_in_int_id |-> u.featured_in_int_id,
     passport_short_url |-> u.passport_short_url,
     passport_ipfs_cid |-> u.passport_ipfs_cid,
     is_in_db |-> u.is_in_db]

\* update_production_stage that sends nothing for a stage that is stored
update_production_stage_skips(st, uid, i) == st

\* MongoDbWrapper.update_production_stage, for stage i of unit uid
update_production_stage(st, uid, i) ==
    LET stage == st.units[uid].biography[i]
    IN update_document(st, "id", stage.id, stage, "stages")

\* MongoDbWrapper.upload_production_stage
upload_production_stage(st, uid, i) ==
    IF st.exc # None \/ st.units[uid].biography[i].is_in_db
    THEN st
    ELSE LET st1 == [st EXCEPT !.units[uid].biography[i].is_in_db = TRUE]
         IN upload_dict(st1, "stages", st1.units[uid].biography[i])

RECURSIVE update_stages(_, _, _)
\* the loop of update_unit over unit.biography, from stage i on
update_stages(st, uid, i) ==
    IF st.exc # None \/ i > Len(st.units[uid].biography)
    THEN st
    ELSE update_stages(
            IF st.units[uid].biography[i].is_in_db
            THEN update_production_stage(st, uid, i)
            ELSE upload_production_stage(st, uid, i),
            uid, i + 1)

\* MongoDbWrapper.update_unit
update_unit(st, uid) ==
    LET st1 == update_stages(st, uid, 1)
    IN IF st1.exc # None THEN st1
       ELSE update_document(st1, "uuid", st1.units[uid].uuid,
                            dict_data(st1.units[uid]), "units")

RECURSIVE upload_stages(_, _, _)
\* the loop of upload_unit over unit.biography, from stage i on
upload_stages(st, uid, i) ==
    IF st.exc # None \/ i > Len(st.units[uid].biography)
    THEN st
    ELSE upload_stages(upload_production_stage(st, uid, i), uid, i + 1)

RECURSIVE upload_unit(_, _)
RECURSIVE upload_components(_, _, _)
\* the loop of upload_unit over unit.components_units, from component i on
upload_components(st, uid, i) ==
    IF st.exc # None \/ i > Len(st.units[uid].components_units)
    THEN st
    ELSE upload_components(upload_unit(st, st.units[uid].components_units[i]),
                           uid, i + 1)

\* upload_unit without the early return for a unit that is stored already
upload_unit_ignores_flag(st, uid) ==
    LET st1 == upload_components(st, uid, 1)
    IN IF st1.exc # None
       THEN st1
       ELSE LET st2 == [st1 EXCEPT !.units[uid].is_in_db = TRUE]
                unit_dict == dict_data(st2.units[uid])
                st3 == upload_stages(st2, uid, 1)
            IN IF st3.exc # None THEN st3
               ELSE upload_dict(st3, "units", unit_dict)

\* MongoDbWrapper.upload_unit
upload_unit(st, uid) ==
    LET st1 == upload_components(st, uid, 1)
    IN IF st1.exc # None \/ st1.units[uid].is_in_db
       THEN st1
       ELSE LET st2 == [st1 EXCEPT !.units[uid].is_in_db = TRUE]
                unit_dict == dict_data(st2.units[uid])
                st3 == upload_stages(st2, uid, 1)
            IN IF st3.exc # None THEN st3
               ELSE upload_dict(st3, "units", unit_dict)

RECURSIVE push_unit(_, _, _)
RECURSIVE push_components(_, _, _)
\* the components of a unit pushed one after the other, from component i on
push_components(st, uid, i) ==
    IF st.exc # None \/ i > Len(st.units[uid].components_units)
    THEN st
    ELSE push_components(push_unit(st, st.units[uid].components_units[i], TRUE),
                         uid, i + 1)

\* MongoDbWrapper.push_unit(unit, include_components=True) is not among the
\* sources: it is the synchronisation of the specification, section 4.3 --
\* the components first, then a first-time upload_unit of a unit that is
\* not stored yet and an update_unit of one that is
push_unit(st, uid, include_components) ==
    LET st1 == IF include_components THEN push_components(st, uid, 1) ELSE st
    IN IF st1.exc # None THEN st1
       ELSE IF st1.units[uid].is_in_db
       THEN update_unit(st1, uid)
       ELSE upload_unit(st1, uid)

RECURSIVE sorted_by_number(_)
\* prod_stage_dicts.sort(key=lambda d: d.get("number", 0)): a stable sort
sorted_by_number(stages) ==
    IF stages = <<>>
    THEN <<>>
    ELSE LET least == CHOOSE i \in 1..Len(stages) :
                        \A j \in 1..Len(stages) :
                            \/ stages[i].number < stages[j].number
                            \/ stages[i].number = stages[j].number /\ i <= j
         IN <<stages[least]>>
            \o sorted_by_number(SubSeq(stages, 1, least - 1)
                                \o SubSeq(stages, least + 1, Len(stages)))

\* MongoDbWrapper._find_many("parent_unit_uuid", uuid, stages collection)
find_stages(d, uuid) ==
    LET RECURSIVE from(_)
        from(i) ==
            IF i > Len(d.stages) THEN <<>>
            ELSE (IF d.stages[i].parent_unit_uuid = uuid
                  THEN <<d.stages[i]>> ELSE <<>>) \o from(i + 1)
    IN from(1)

\* the Unit(...) call without is_in_db: the constructor's default, False
reassembled_unit_unflagged(unit_dict, prod_stage_dicts) ==
    [schema |-> unit_dict.schema_id,
     uuid |-> unit_dict.uuid,
     status |-> IF Schemas[unit_dict.schema_id].stages = 0
                THEN "built" ELSE "production",
     passport_short_url |-> unit_dict.passport_short_url,
     passport_ipfs_cid |-> None,
     components_units |-> unit_dict.components_internal_ids,
     featured_in_int_id |-> unit_dict.featured_in_int_id,
     employee |-> None,
     biography |-> IF prod_stage_dicts # <<>>
                   THEN prod_stage_dicts
                   ELSE biography_factory(unit_dict.schema_id, unit_dict.uuid),
     is_in_db |-> FALSE]

\* the Unit(...) call of get_unit_by_internal_id on the document unit_dict
\* and the sorted stage documents: status, passport_ipfs_cid, txn_hash and
\* serial_number are not handed over, so Unit.__init__ takes its defaults
\* (production, or built for a schema with no stages; no cid)
reassembled_unit(unit_dict, prod_stage_dicts) ==
    [schema |-> unit_dict.schema_id,
     uuid |-> unit_dict.uuid,
     status |-> IF Schemas[unit_dict.schema_id].stages = 0
                THEN "built" ELSE "production",
     passport_short_url |-> unit_dict.passport_short_url,
     passport_ipfs_cid |-> None,
     components_units |-> unit_dict.components_internal_ids,
     featured_in_int_id |-> unit_dict.featured_in_int_id,
     employee |-> None,
     biography |-> IF prod_stage_dicts # <<>>
                   THEN prod_stage_dicts
                   ELSE biography_factory(unit_dict.schema_id, unit_dict.uuid),
     is_in_db |-> unit_dict.is_in_db]

\* MongoDbWrapper.get_schema_by_id, as what it raises: schemas are the ids of
\* the documents of the Production-schemas collection
get_schema_by_id(schemas, schema_id) ==
    IF schema_id \in schemas THEN None ELSE ValueError_SchemaNotFound

\* get_unit_by_internal_id that does not fetch the components of the unit
get_unit_by_internal_id_partial(d, schemas, unit_internal_id) ==
    LET hits == {i \in 1..Len(d.units) : d.units[i].internal_id = unit_internal_id}
    IN IF hits = {}
       THEN [unit |-> NoUnit, exc |-> UnitNotFoundError]
       ELSE LET unit_dict == d.units[CHOOSE i \in hits : \A j \in hits : i <= j]
            IN IF get_schema_by_id(schemas, unit_dict.schema_id) # None
               THEN [unit |-> NoUnit, exc |-> UnitNotFoundError]
               ELSE [unit |-> reassembled_unit(
                                  unit_dict,
                                  sorted_by_number(find_stages(d, unit_dict.uuid))),
                     exc |-> None]

RECURSIVE get_unit_by_internal_id(_, _, _)
\* MongoDbWrapper.get_unit_by_internal_id: the reassembled unit (its
\* components, reassembled the same way, by their ids).  Whatever is raised
\* on the way -- no document of the unit, no schema, a component that is not
\* found -- is caught and raised again as UnitNotFoundError
get_unit_by_internal_id(d, schemas, unit_internal_id) ==
    LET hits == {i \in 1..Len(d.units) : d.units[i].internal_id = unit_internal_id}
    IN IF hits = {}
       THEN [unit |-> NoUnit, exc |-> UnitNotFoundError]
       ELSE LET unit_dict == d.units[CHOOSE i \in hits : \A j \in hits : i <= j]
                ids == unit_dict.components_internal_ids
            IN IF get_schema_by_id(schemas, unit_dict.schema_id) # None
               THEN [unit |-> NoUnit, exc |-> UnitNotFoundError]
               ELSE IF \E i \in 1..Len(ids) :
                      get_unit_by_internal_id(d, schemas, ids[i]).exc # None
               THEN [unit |-> NoUnit, exc |-> UnitNotFoundError]
               ELSE [unit |-> reassembled_unit(
                                  unit_dict,
                                  sorted_by_number(find_stages(d, unit_dict.uuid))),
                     exc |-> None]

\* MongoDbWrapper.unit_update_single_field (not among the sources): the one
\* field of the document of the unit is set to value, the others are left
unit_update_single_field(d, unit_internal_id, field, value) ==
    LET hits == {i \in 1..Len(d.units) : d.units[i].internal_id = unit_internal_id}
    IN IF hits = {}
       THEN d
       ELSE LET first == CHOOSE i \in hits : \A j \in hits : i <= j
                doc == d.units[first]
            IN [d EXCEPT !.units[first] =
                    [f \in DOMAIN doc \cup {field} |->
                        IF f = field THEN value ELSE doc[f]]]

(* ------------------------------------------------------------------ *)
(* workbench_utils.py                                                 *)
(* ------------------------------------------------------------------ *)

RECURSIVE get_unit_list(_, _)
RECURSIVE get_unit_list_of(_, _, _)
\* the loop of _get_unit_list over unit_.components_units, from component i on
get_unit_list_of(us, uid, i) ==
    IF i > Len(us[uid].components_units)
    THEN <<>>
    ELSE get_unit_list(us, us[uid].components_units[i])
         \o get_unit_list_of(us, uid, i + 1)

\* _get_unit_list: the units of the component tree, the root first
get_unit_list(us, uid) == <<uid>> \o get_unit_list_of(us, uid, 1)

\* determine_asssignment_target with an override that forgets to look at the
\* passport: every built unit passes
determine_asssignment_target_any_built(us, uid, allowed_statuses) ==
    LET u == us[uid]
        tree == get_unit_list(us, uid)
        found == {i \in 1..Len(tree) : us[tree[i]].status \in allowed_statuses}
    IN IF u.status \in allowed_statuses \/ u.status = "built"
       THEN [unit |-> uid, allowed |-> TRUE]
       ELSE IF found # {}
       THEN [unit |-> tree[CHOOSE i \in found : \A j \in found : i <= j],
             allowed |-> TRUE]
       ELSE [unit |-> uid, allowed |-> FALSE]

\* determine_asssignment_target
determine_asssignment_target(us, uid, allowed_statuses) ==
    LET u == us[uid]
        override == u.status = "built" /\ u.passport_ipfs_cid = None
        tree == get_unit_list(us, uid)
        found == {i \in 1..Len(tree) : us[tree[i]].status \in allowed_statuses}
    IN IF u.status \in allowed_statuses \/ override
       THEN [unit |-> uid, allowed |-> TRUE]
       ELSE IF found # {}
       THEN [unit |-> tree[CHOOSE i \in found : \A j \in found : i <= j],
             allowed |-> TRUE]
       ELSE [unit |-> uid, allowed |-> FALSE]

(* ------------------------------------------------------------------ *)
(* WorkBench.py                                                       *)
(* ------------------------------------------------------------------ *)

\* A workbench value w = [state, employee, unit, units, db, path]: the fields
\* of the WorkBench object, the heap of Unit objects, the collections, and
\* the states switch_state has assigned to self.state since the call began.
\* A method returns [w, exc]: what it left behind and what it raised.
Returned(w) == [w |-> w, exc |-> None]

Raised(w, exc) == [w |-> w, exc |-> exc]

\* _validate_state_transition with a check that lets every transition pass
validate_state_transition_passes(cur_state, new_state) == TRUE

\* WorkBench._validate_state_transition: TRUE when it returns, FALSE when it
\* raises StateForbiddenError
validate_state_transition(cur_state, new_state) ==
    new_state \in STATE_TRANSITION_MAP[cur_state]

\* WorkBench.switch_state
switch_state(w, new_state) ==
    IF ~validate_state_transition(w.state, new_state)
    THEN Raised(w, StateForbiddenError)
    ELSE Returned([w EXCEPT !.state = new_state, !.path = Append(@, new_state)])

\* WorkBench.log_in
log_in(w, emp) ==
    IF ~validate_state_transition(w.state, AUTHORIZED_IDLING_STATE)
    THEN Raised(w, StateForbiddenError)
    ELSE switch_state([w EXCEPT !.employee = emp], AUTHORIZED_IDLING_STATE)

\* remove_unit that forgets to clear the reference
remove_unit_keeps_unit(w) ==
    IF ~validate_state_transition(w.state, AUTHORIZED_IDLING_STATE)
    THEN Raised(w, StateForbiddenError)
    ELSE IF w.unit = NoUnit
    THEN Raised(w, AssertionError)
    ELSE switch_state(w, AUTHORIZED_IDLING_STATE)

\* WorkBench.remove_unit
remove_unit(w) ==
    IF ~validate_state_transition(w.state, AUTHORIZED_IDLING_STATE)
    THEN Raised(w, StateForbiddenError)
    ELSE IF w.unit = NoUnit
    THEN Raised(w, AssertionError)
    ELSE switch_state([w EXCEPT !.unit = NoUnit], AUTHORIZED_IDLING_STATE)

\* WorkBench.log_out
log_out(w) ==
    IF ~validate_state_transition(w.state, AWAIT_LOGIN_STATE)
    THEN Raised(w, StateForbiddenError)
    ELSE LET r == IF w.state = UNIT_ASSIGNED_IDLING_STATE
                  THEN remove_unit(w)
                  ELSE Returned(w)
         IN IF r.exc # None THEN r
            ELSE IF r.w.employee = None
            THEN Raised(r.w, AssertionError)
            ELSE switch_state([r.w EXCEPT !.employee = None], AWAIT_LOGIN_STATE)

\* assign_unit that never enters the gathering of components
assign_unit_never_gathers(w, uid) ==
    IF ~validate_state_transition(w.state, UNIT_ASSIGNED_IDLING_STATE)
    THEN Raised(w, StateForbiddenError)
    ELSE LET target == determine_asssignment_target(w.units, uid,
                                                    {"production", "revision"})
         IN IF ~target.allowed
            THEN Raised(w, AssertionError)
            ELSE switch_state([w EXCEPT !.unit = target.unit],
                              UNIT_ASSIGNED_IDLING_STATE)

\* WorkBench.assign_unit
assign_unit(w, uid) ==
    IF ~validate_state_transition(w.state, UNIT_ASSIGNED_IDLING_STATE)
    THEN Raised(w, StateForbiddenError)
    ELSE LET target == determine_asssignment_target(w.units, uid,
                                                    {"production", "revision"})
         IN IF ~target.allowed
            THEN Raised(w, AssertionError)
            ELSE LET w1 == [w EXCEPT !.unit = target.unit]
                 IN IF ~components_filled(w1.units[target.unit])
                    THEN switch_state(w1, GATHER_COMPONENTS_STATE)
                    ELSE switch_state(w1, UNIT_ASSIGNED_IDLING_STATE)

\* create_new_unit without its check of the state
create_new_unit_in_any_state(w, schema, printer, faults) ==
    IF w.employee = None
    THEN Raised(w, AssertionError)
    ELSE LET uid == Len(w.units) + 1
             new == Append(w.units, NewUnit(schema, uid))
         IN IF printer = "fail"
            THEN Raised(w, ExternalError)
            ELSE LET st == push_unit(Sync(new, w.db, faults), uid, TRUE)
                 IN IF st.exc # None
                    THEN Raised([w EXCEPT !.db = st.db], st.exc)
                    ELSE Returned([w EXCEPT !.units = st.units, !.db = st.db])

\* WorkBench.create_new_unit.  printer is what CONFIG.printer and the print
\* server make of print_unit_barcode: "off" (not called), "ok", "fail"
\* (printer.print_unit_barcode re-raises); faults are the failing requests
\* of push_unit.  The new Unit object takes the next place of the heap; a
\* call that raises returns no unit, so the object is dropped.
create_new_unit(w, schema, printer, faults) ==
    IF w.employee = None
    THEN Raised(w, AssertionError)
    ELSE IF w.state # AUTHORIZED_IDLING_STATE
    THEN Raised(w, StateForbiddenError)
    ELSE LET uid == Len(w.units) + 1
             new == Append(w.units, NewUnit(schema, uid))
         IN IF printer = "fail"
            THEN Raised(w, ExternalError)
            ELSE LET st == push_unit(Sync(new, w.db, faults), uid, TRUE)
                 IN IF st.exc # None
                    THEN Raised([w EXCEPT !.db = st.db], st.exc)
                    ELSE Returned([w EXCEPT !.units = st.units, !.db = st.db])

\* WorkBench.start_operation.  camera is "none" (self.camera is None), "ok"
\* or "fail" (camera.start raises)
start_operation(w, additional_info, camera) ==
    IF ~validate_state_transition(w.state, PRODUCTION_STAGE_ONGOING_STATE)
    THEN Raised(w, StateForbiddenError)
    ELSE IF w.unit = NoUnit
    THEN Raised(w, AssertionError)
    ELSE IF w.employee = None
    THEN Raised(w, AssertionError)
    ELSE IF camera = "fail"
    THEN Raised(w, ExternalError)
    ELSE LET r == Unit_start_operation(w.units[w.unit], w.employee, additional_info)
             w1 == [w EXCEPT !.units[w.unit] = r.unit]
         IN IF r.exc # None
            THEN Raised(w1, r.exc)
            ELSE switch_state(w1, PRODUCTION_STAGE_ONGOING_STATE)

\* WorkBench.assign_component_to_unit
assign_component_to_unit(w, component, faults) ==
    IF ~(w.state = GATHER_COMPONENTS_STATE /\ w.unit # NoUnit)
    THEN Raised(w, AssertionError)
    ELSE LET r == Unit_assign_component(w.units, w.unit, component)
             w1 == [w EXCEPT !.units = r.units]
         IN IF r.exc # None
            THEN Raised(w1, r.exc)
            ELSE IF components_filled(w1.units[w1.unit])
            THEN LET st == push_unit(Sync(w1.units, w1.db, faults), w1.unit, TRUE)
                     w2 == [w1 EXCEPT !.units = st.units, !.db = st.db]
                 IN IF st.exc # None
                    THEN Raised(w2, st.exc)
                    ELSE switch_state(w2, UNIT_ASSIGNED_IDLING_STATE)
            ELSE Returned(w1)

\* a method after `await self._database.push_unit(...)` ended as st: it
\* raises what the synchronisation raised, or goes on to switch_state
\* (new_state = None: it returns)
after_push_unit(w, st, new_state) ==
    LET w1 == [w EXCEPT !.units = st.units, !.db = st.db]
    IN IF st.exc # None THEN Raised(w1, st.exc)
       ELSE IF new_state = None THEN Returned(w1)
       ELSE switch_state(w1, new_state)

\* `self.unit.end_operation(...)` in WorkBench.end_operation: Unit.py declares
\* end_operation `async def` and the call is not awaited, so it only makes
\* the coroutine object.  The body, which would have ended as r, never runs:
\* unit u is as it was and nothing is raised
not_awaited(u, r) == [unit |-> u, exc |-> None]

\* WorkBench.end_operation after self.unit.end_operation(...) ended as r
store_ended_operation(w, r, faults) ==
    LET w1 == [w EXCEPT !.units[w.unit] = r.unit]
    IN IF r.exc # None
       THEN Raised(w1, r.exc)
       ELSE after_push_unit(w1, push_unit(Sync(w1.units, w1.db, faults), w1.unit, FALSE),
                            UNIT_ASSIGNED_IDLING_STATE)

\* WorkBench.end_operation.  video is what the camera and the publisher make
\* of the recording: "none" (no camera, no employee, or no record),
\* "publish_fail" (publish_file raises, or returns None), "published"
end_operation(w, additional_info, premature, video, faults) ==
    IF ~validate_state_transition(w.state, UNIT_ASSIGNED_IDLING_STATE)
    THEN Raised(w, StateForbiddenError)
    ELSE IF w.unit = NoUnit
    THEN Raised(w, AssertionError)
    ELSE store_ended_operation(
            w,
            not_awaited(w.units[w.unit],
                        Unit_end_operation(w.units[w.unit],
                                           IF video = "published" /\ w.employee # None
                                           THEN <<"cid">> ELSE <<>>,
                                           additional_info, premature)),
            faults)

\* print_seal_tag that lets the failure of print_image out
print_seal_tag_reraises(printer) ==
    IF printer = "fail" THEN ExternalError ELSE None

\* printer.print_passport_qr_code, as what it raises: `except Exception`
\* reports the failure of print_image and raises nothing
print_passport_qr_code(printer) == None

\* printer.print_seal_tag, as what it raises: `except Exception` reports the
\* failure of print_image and raises nothing
print_seal_tag(printer) == None

\* WorkBench.upload_unit_passport from `if CONFIG.printer.print_security_tag`
\* on, after the part before it raised exc (None: nothing)
upload_unit_passport_seal(w, exc, printer, faults) ==
    IF exc # None
    THEN Raised(w, exc)
    ELSE IF printer # "off" /\ print_seal_tag(printer) # None
    THEN Raised(w, print_seal_tag(printer))
    ELSE after_push_unit(w, push_unit(Sync(w.units, w.db, faults), w.unit, TRUE),
                         None)

\* WorkBench.upload_unit_passport.  ipfs is "off" (CONFIG.ipfs_gateway.enable
\* is false), "ok" or "fail" (publish_file raises); print_qr is the value of
\* the print_qr condition; printer is "off" (CONFIG.printer.print_security_tag
\* is false), "ok" or "fail" (print_image raises in each printer call).  The
\* detached tasks (short url in the background, datalog) are not part of
\* the call.
upload_unit_passport(w, ipfs, print_qr, printer, faults) ==
    IF w.unit = NoUnit
    THEN Raised(w, AssertionError)
    ELSE IF w.employee = None
    THEN Raised(w, AssertionError)
    ELSE IF ipfs = "fail"
    THEN Raised(w, ExternalError)
    ELSE IF ipfs = "ok"
    THEN upload_unit_passport_seal(
            [w EXCEPT !.units[w.unit].passport_ipfs_cid = "cid",
                      !.units[w.unit].passport_short_url =
                          IF print_qr THEN "url" ELSE @],
            IF print_qr THEN print_passport_qr_code(printer) ELSE None,
            printer, faults)
    ELSE upload_unit_passport_seal(w, None, printer, faults)

\* WorkBench.shutdown, its last step, after the earlier ones ended as r
shutdown_log_out(r) ==
    IF r.exc # None THEN r
    ELSE IF r.w.state = AUTHORIZED_IDLING_STATE
    THEN log_out(r.w)
    ELSE r

\* WorkBench.shutdown, its second step, after the first one ended as r
shutdown_remove_unit(r) ==
    IF r.exc # None THEN r
    ELSE IF r.w.state \in {UNIT_ASSIGNED_IDLING_STATE, GATHER_COMPONENTS_STATE}
    THEN remove_unit(r.w)
    ELSE r

\* WorkBench.shutdown
shutdown(w, video, faults) ==
    shutdown_log_out(
        shutdown_remove_unit(
            IF w.state = PRODUCTION_STAGE_ONGOING_STATE
            THEN end_operation(w, InfoShutdown, TRUE, video, faults)
            ELSE Returned(w)))

(* ------------------------------------------------------------------ *)
(* WorkBench.py, a coroutine at a time: a method runs up to an await  *)
(* that suspends it, and goes on when the event loop resumes it       *)
(* ------------------------------------------------------------------ *)

\* A method up to its suspension ends as [w, exc, pc]: pc names the await
\* it is suspended at, None when the method is over (it returned or raised)
Suspended(w, pc) == [w |-> w, exc |-> None, pc |-> pc]

Finished(r) == [w |-> r.w, exc |-> r.exc, pc |-> None]

\* WorkBench.start_operation up to `await self.camera.start(...)`, with a
\* camera attached (WorkBench.py:144-157)
start_operation_call(w) ==
    IF ~validate_state_transition(w.state, PRODUCTION_STAGE_ONGOING_STATE)
    THEN Finished(Raised(w, StateForbiddenError))
    ELSE IF w.unit = NoUnit
    THEN Finished(Raised(w, AssertionError))
    ELSE IF w.employee = None
    THEN Finished(Raised(w, AssertionError))
    ELSE Suspended(w, "camera")

\* Unit.start_operation(None, info): the stage is stamped with the time and
\* the info before employee.passport_code raises
Unit_start_operation_no_employee(u, additional_info) ==
    LET pos == next_pending_operation(u)
    IN IF pos = 0
       THEN [unit |-> u, exc |-> AssertionError]
       ELSE [unit |-> [u EXCEPT !.biography[pos].session_start_time = "started",
                                !.biography[pos].additional_info = additional_info],
             exc |-> AttributeError]

\* WorkBench.start_operation from the return of camera.start on
\* (WorkBench.py:159-161): self.unit and self.employee are read again
start_operation_resume(w, additional_info, camera) ==
    IF camera = "fail"
    THEN Raised(w, ExternalError)
    ELSE IF w.unit = NoUnit
    THEN Raised(w, AttributeError)
    ELSE LET r == IF w.employee = None
                  THEN Unit_start_operation_no_employee(w.units[w.unit],
                                                        additional_info)
                  ELSE Unit_start_operation(w.units[w.unit], w.employee,
                                            additional_info)
             w1 == [w EXCEPT !.units[w.unit] = r.unit]
         IN IF r.exc # None
            THEN Raised(w1, r.exc)
            ELSE switch_state(w1, PRODUCTION_STAGE_ONGOING_STATE)

\* WorkBench.end_operation from `self.unit.end_operation(` to the await of
\* push_unit (WorkBench.py:217-223); self.unit is read again
end_operation_store(w, additional_info, premature, video) ==
    IF w.unit = NoUnit
    THEN Finished(Raised(w, AttributeError))
    ELSE LET r == not_awaited(w.units[w.unit],
                              Unit_end_operation(w.units[w.unit],
                                                 IF video = "published"
                                                 THEN <<"cid">> ELSE <<>>,
                                                 additional_info, premature))
             w1 == [w EXCEPT !.units[w.unit] = r.unit]
             st == push_unit(Sync(w1.units, w1.db, {}), w1.unit, FALSE)
         IN Suspended([w1 EXCEPT !.units = st.units, !.db = st.db], "push")

\* WorkBench.end_operation up to its first await, with a camera attached
\* (WorkBench.py:180-193): camera.end is awaited when an employee is logged
\* in, push_unit otherwise
end_operation_call(w, additional_info, premature) ==
    IF ~validate_state_transition(w.state, UNIT_ASSIGNED_IDLING_STATE)
    THEN Finished(Raised(w, StateForbiddenError))
    ELSE IF w.unit = NoUnit
    THEN Finished(Raised(w, AssertionError))
    ELSE IF w.employee # None
    THEN Suspended(w, "record")
    ELSE end_operation_store(w, additional_info, premature, "none")

\* WorkBench.end_operation from the return of push_unit on (WorkBench.py:225)
end_operation_resume(w) == switch_state(w, UNIT_ASSIGNED_IDLING_STATE)

\* WorkBench.assign_component_to_unit up to the await of push_unit
\* (WorkBench.py:166-174)
assign_component_to_unit_call(w, component) ==
    IF ~(w.state = GATHER_COMPONENTS_STATE /\ w.unit # NoUnit)
    THEN Finished(Raised(w, AssertionError))
    ELSE LET r == Unit_assign_component(w.units, w.unit, component)
             w1 == [w EXCEPT !.units = r.units]
         IN IF r.exc # None
            THEN Finished(Raised(w1, r.exc))
            ELSE IF components_filled(w1.units[w1.unit])
            THEN LET st == push_unit(Sync(w1.units, w1.db, {}), w1.unit, TRUE)
                 IN Suspended([w1 EXCEPT !.units = st.units, !.db = st.db], "push")
            ELSE Finished(Returned(w1))

\* WorkBench.assign_component_to_unit from the return of push_unit on
\* (WorkBench.py:175)
assign_component_to_unit_resume(w) == switch_state(w, UNIT_ASSIGNED_IDLING_STATE)

\* WorkBench.upload_unit_passport up to `await print_seal_tag(...)`, with
\* the IPFS gateway and the security tag enabled (WorkBench.py:230-259).
\* spawned: the short url is left to a detached task (print_qr is false)
upload_unit_passport_call(w, print_qr) ==
    IF w.unit = NoUnit
    THEN [w |-> w, exc |-> AssertionError, pc |-> None, spawned |-> FALSE]
    ELSE IF w.employee = None
    THEN [w |-> w, exc |-> AssertionError, pc |-> None, spawned |-> FALSE]
    ELSE [w |-> [w EXCEPT !.units[w.unit].passport_ipfs_cid = "cid",
                          !.units[w.unit].passport_short_url =
                              IF print_qr THEN "url" ELSE @],
          exc |-> None, pc |-> "seal", spawned |-> ~print_qr]

\* upload_unit_passport that awaits post_to_datalog before it pushes the unit
upload_unit_passport_resume_awaits_datalog(w) ==
    IF w.unit = NoUnit
    THEN [w |-> w, exc |-> AttributeError, spawned |-> FALSE]
    ELSE LET posted == IF w.units[w.unit].passport_ipfs_cid # None
                       THEN unit_update_single_field(w.db, internal_id(w.units[w.unit]),
                                                     "txn_hash", "txn")
                       ELSE w.db
             st == push_unit(Sync(w.units, posted, {}), w.unit, TRUE)
         IN [w |-> [w EXCEPT !.units = st.units, !.db = st.db],
             exc |-> st.exc,
             spawned |-> FALSE]

\* WorkBench.upload_unit_passport from the return of print_seal_tag on, with
\* the datalog enabled (WorkBench.py:261-264): self.unit is read again.
\* spawned: post_to_datalog is left to a detached task
upload_unit_passport_resume(w) ==
    IF w.unit = NoUnit
    THEN [w |-> w, exc |-> AttributeError, spawned |-> FALSE]
    ELSE LET st == push_unit(Sync(w.units, w.db, {}), w.unit, TRUE)
         IN [w |-> [w EXCEPT !.units = st.units, !.db = st.db],
             exc |-> st.exc,
             spawned |-> w.units[w.unit].passport_ipfs_cid # None]

(* ------------------------------------------------------------------ *)
(* The state machine                                                  *)
(* ------------------------------------------------------------------ *)

\* the requests to MongoDB that fail during one call: none, or the first
FaultSets == {{}, {1}}

\* A unit an earlier session left in the database, as the caller hands it to
\* assign_unit: every stage done and stored.  Its status is the stored one
\* (a finished unit is built; the revision status is set from outside the
\* daemon), its passport has been published or not.
StoredUnit(schema, uuid, status, cid, components, featured_in) ==
    [NewUnit(schema, uuid) EXCEPT
        !.status = status,
        !.passport_ipfs_cid = cid,
        !.components_units = components,
        !.featured_in_int_id = featured_in,
        !.is_in_db = TRUE,
        !.biography =
            List([i \in 1..Len(@) |->
                    [@[i] EXCEPT !.session_start_time = "started",
                                 !.session_end_time = "ended",
                                 !.employee_name = "e1",
                                 !.completed = TRUE,
                                 !.is_in_db = TRUE]])]

\* a stored unit whose first stage an earlier session started and ended
\* prematurely: the ended stage and, after it, its pending duplicate
StoredInterrupted(schema, uuid) ==
    LET started == Unit_start_operation(NewUnit(schema, uuid), "e1", InfoStart).unit
        ended == Unit_end_operation(started, <<>>, {}, TRUE).unit
    IN [ended EXCEPT
           !.is_in_db = TRUE,
           !.biography = List([i \in 1..Len(@) |-> [@[i] EXCEPT !.is_in_db = TRUE]])]

\* the heaps the daemon can start with: no unit at all, a unit interrupted
\* in its first stage, or a finished and published parent holding one
\* component that is built or sent to revision
StoredHeaps ==
    {<<>>} \cup {<<StoredInterrupted("staged", 1)>>} \cup
    {<<StoredUnit(parent, 1, "built", cid, <<2>>, NoUnit),
       StoredUnit("simple", 2, status, None, <<>>, 1)>> :
        parent \in {"composite", "double"},
        cid \in {"cid"},
        status \in {"built", "revision"}}

\* the collections that hold exactly the units of heap us
StoredDb(us) ==
    LET RECURSIVE stages_from(_)
        stages_from(i) ==
            IF i > Len(us) THEN <<>> ELSE us[i].biography \o stages_from(i + 1)
    IN [units |-> List([i \in 1..Len(us) |-> dict_data(us[i])]),
        stages |-> stages_from(1)]

\* the current workbench value
W == [state |-> state, employee |-> employee, unit |-> unit, units |-> units,
      db |-> db, path |-> <<>>]

\* The call of method op (on unit arg, if it takes one) ended as r.  A call
\* that raised and left everything as it was is a stuttering step; what
\* such calls do is stated about the method's result in every reachable
\* state.
Apply(op, arg, r) ==
    LET res == r
        w == res.w
    IN /\ w # W
       /\ steps < MaxSteps
       /\ state' = w.state
       /\ employee' = w.employee
       /\ unit' = w.unit
       /\ units' = w.units
       /\ db' = w.db
       /\ last' = [op |-> op, arg |-> arg, exc |-> res.exc, path |-> w.path]
       /\ steps' = steps + 1
       /\ UNCHANGED <<now, tasks>>

\* WorkBench.__init__
Init ==
    /\ state = AWAIT_LOGIN_STATE
    /\ employee = None
    /\ unit = NoUnit
    /\ units \in StoredHeaps
    /\ db = StoredDb(units)
    /\ last = [op |-> "init", arg |-> NoUnit, exc |-> None, path |-> <<>>]
    /\ steps = 0
    /\ now = 0
    /\ tasks = <<>>

LogIn == \E emp \in Employees : Apply("log_in", NoUnit, log_in(W, emp))

LogOut == Apply("log_out", NoUnit, log_out(W))

CreateNewUnit ==
    \E schema \in SchemaIds, printer \in {"off", "ok", "fail"}, faults \in FaultSets :
        /\ Len(units) < MaxUnits
        /\ Apply("create_new_unit", NoUnit,
                 create_new_unit(W, schema, printer, faults))

AssignUnit ==
    \E uid \in 1..Len(units) : Apply("assign_unit", uid, assign_unit(W, uid))

RemoveUnit == Apply("remove_unit", NoUnit, remove_unit(W))

AssignComponent ==
    \E component \in 1..Len(units), faults \in FaultSets :
        Apply("assign_component", component,
              assign_component_to_unit(W, component, faults))

StartOperation ==
    \E camera \in {"none", "ok", "fail"} :
        Apply("start_operation", NoUnit, start_operation(W, InfoStart, camera))

\* the videos of end_operation
Videos == {"none", "publish_fail", "published"}

EndOperation ==
    \E additional_info \in {{}, InfoEnd}, premature \in BOOLEAN,
       video \in Videos, faults \in FaultSets :
        /\ Apply("end_operation", NoUnit,
                 end_operation(W, additional_info, premature, video, faults))

UploadUnitPassport ==
    \E ipfs \in {"off", "ok", "fail"}, print_qr \in BOOLEAN,
       printer \in {"off", "ok", "fail"}, faults \in FaultSets :
        Apply("upload_unit_passport", NoUnit,
              upload_unit_passport(W, ipfs, print_qr, printer, faults))

Shutdown ==
    \E video \in Videos, faults \in FaultSets :
        Apply("shutdown", NoUnit, shutdown(W, video, faults))

Next ==
    \/ LogIn
    \/ LogOut
    \/ CreateNewUnit
    \/ AssignUnit
    \/ RemoveUnit
    \/ AssignComponent
    \/ StartOperation
    \/ EndOperation
    \/ UploadUnitPassport
    \/ Shutdown

Spec == Init /\ [][Next]_vars

(* ------------------------------------------------------------------ *)
(* Units and their documents, without a workbench: the methods of     *)
(* Unit and of MongoDbWrapper called one after the other              *)
(* ------------------------------------------------------------------ *)

\* the Production-schemas collection a call finds: every schema, or every
\* schema but the one of the components
SchemaCollections == {SchemaIds, SchemaIds \ {"simple"}}

\* the heap after a step of method op on unit uid that ended as exc
UnitApply(op, uid, us, d, exc) ==
    /\ steps < MaxSteps
    /\ <<us, d>> # <<units, db>>
    /\ units' = us
    /\ db' = d
    /\ last' = [op |-> op, arg |-> uid, exc |-> exc, path |-> <<>>]
    /\ steps' = steps + 1
    /\ UNCHANGED <<state, employee, unit, now, tasks>>

\* two new units, nothing stored
UnitInit ==
    /\ state = AWAIT_LOGIN_STATE
    /\ employee = None
    /\ unit = NoUnit
    /\ units \in {<<NewUnit(parent, 1), NewUnit(component, 2)>> :
                    parent \in {"staged", "composite", "twin"},
                    component \in {"simple", "staged"}}
    /\ db = StoredDb(<<>>)
    /\ last = [op |-> "init", arg |-> NoUnit, exc |-> None, path |-> <<>>]
    /\ steps = 0
    /\ now = 0
    /\ tasks = <<>>

UnitStartOperation ==
    \E uid \in 1..Len(units) :
        LET r == Unit_start_operation(units[uid], "e1", InfoStart)
        IN UnitApply("start_operation", uid, [units EXCEPT ![uid] = r.unit], db, r.exc)

\* `await unit.end_operation(...)`; a premature ending lengthens the
\* biography: up to MaxBio stages
UnitEndOperation ==
    \E uid \in 1..Len(units), premature \in BOOLEAN :
        LET r == Unit_end_operation(units[uid], <<>>, InfoEnd, premature)
        IN /\ premature => Len(units[uid].biography) < MaxBio
           /\ UnitApply("end_operation", uid, [units EXCEPT ![uid] = r.unit], db, r.exc)

UnitAssignComponent ==
    \E uid \in 1..Len(units), cid \in 1..Len(units) :
        LET r == Unit_assign_component(units, uid, cid)
        IN UnitApply("assign_component", uid, r.units, db, r.exc)

PushUnit ==
    \E uid \in 1..Len(units), include_components \in BOOLEAN :
        LET st == push_unit(Sync(units, db, {}), uid, include_components)
        IN UnitApply("push_unit", uid, st.units, st.db, st.exc)

UploadUnit ==
    \E uid \in 1..Len(units) :
        LET st == upload_unit(Sync(units, db, {}), uid)
        IN UnitApply("upload_unit", uid, st.units, st.db, st.exc)

\* update_unit is the synchronisation of a unit that is stored
UpdateUnit ==
    \E uid \in 1..Len(units) :
        LET st == update_unit(Sync(units, db, {}), uid)
        IN /\ units[uid].is_in_db
           /\ UnitApply("update_unit", uid, st.units, st.db, st.exc)

\* the Unit object uid is dropped and reassembled from its documents
GetUnitByInternalId ==
    \E uid \in 1..Len(units), schemas \in SchemaCollections :
        LET r == get_unit_by_internal_id(db, schemas, internal_id(units[uid]))
        IN /\ r.exc = None
           /\ UnitApply("get_unit_by_internal_id", uid,
                        [units EXCEPT ![uid] = r.unit], db, r.exc)

UnitNext ==
    \/ UnitStartOperation
    \/ UnitEndOperation
    \/ UnitAssignComponent
    \/ PushUnit
    \/ UploadUnit
    \/ UpdateUnit
    \/ GetUnitByInternalId

UnitSpec == UnitInit /\ [][UnitNext]_vars

(* ------------------------------------------------------------------ *)
(* A unit and the clock: the stages are stamped with the time at      *)
(* which they are started and ended                                   *)
(* ------------------------------------------------------------------ *)

\* unit u after a call at time t of the clock: the times the call stamped
\* are timestamp() at t
Stamped(u, t) ==
    [u EXCEPT !.biography =
        List([i \in 1..Len(@) |->
                [@[i] EXCEPT
                    !.session_start_time = IF @ = "started" THEN timestamp(t) ELSE @,
                    !.session_end_time = IF @ = "ended" THEN timestamp(t) ELSE @]])]

\* a step of method op on unit uid at the current time that left the unit
\* as u and returned result
TimeApply(op, uid, u, result) ==
    /\ units' = [units EXCEPT ![uid] = Stamped(u, now)]
    /\ last' = [op |-> op, arg |-> uid, exc |-> None, path |-> <<>>,
                result |-> result]
    /\ UNCHANGED <<state, employee, unit, db, steps, now, tasks>>

\* one new unit, with no stage or with two, at time 0
TimeInit ==
    /\ state = AWAIT_LOGIN_STATE
    /\ employee = None
    /\ unit = NoUnit
    /\ units \in {<<NewUnit(schema, 1)>> : schema \in {"simple", "staged"}}
    /\ db = StoredDb(<<>>)
    /\ last = [op |-> "init", arg |-> NoUnit, exc |-> None, path |-> <<>>,
               result |-> 0]
    /\ steps = 0
    /\ now = 0
    /\ tasks = <<>>

\* time passes
Tick ==
    /\ now < MaxTime
    /\ now' = now + 1
    /\ UNCHANGED <<state, employee, unit, units, db, last, steps, tasks>>

TimeStartOperation ==
    \E uid \in 1..Len(units) :
        LET r == Unit_start_operation(units[uid], "e1", InfoStart)
        IN /\ r.exc = None
           /\ TimeApply("start_operation", uid, r.unit, 0)

TimeEndOperation ==
    \E uid \in 1..Len(units), premature \in BOOLEAN :
        LET r == Unit_end_operation(units[uid], <<>>, {}, premature)
        IN /\ r.exc = None
           /\ premature => Len(units[uid].biography) < MaxBio
           /\ TimeApply("end_operation", uid, r.unit, 0)

TotalAssemblyTime ==
    \E uid \in 1..Len(units) :
        TimeApply("total_assembly_time", uid, units[uid],
                  total_assembly_time(units[uid], now))

TimeNext ==
    \/ Tick
    \/ TimeStartOperation
    \/ TimeEndOperation
    \/ TotalAssemblyTime

TimeSpec == TimeInit /\ [][TimeNext]_vars

(* ------------------------------------------------------------------ *)
(* The workbench on the event loop: requests that are suspended at an *)
(* await while other requests and the detached tasks run              *)
(* ------------------------------------------------------------------ *)

\* sequence s without its item i
Remove(s, i) == SubSeq(s, 1, i - 1) \o SubSeq(s, i + 1, Len(s))

\* a coroutine of method op suspended at await pc, or a detached task
Task(op, pc, info, arg) == [op |-> op, pc |-> pc, info |-> info, arg |-> arg]

\* the workbench after log_in(e1) and a create_new_unit for each schema of
\* the list, with no printer and a database that works
RECURSIVE Created(_)
Created(schemas) ==
    IF schemas = <<>>
    THEN [state |-> AUTHORIZED_IDLING_STATE, employee |-> "e1", unit |-> NoUnit,
          units |-> <<>>, db |-> StoredDb(<<>>), path |-> <<>>]
    ELSE create_new_unit(Created(SubSeq(schemas, 1, Len(schemas) - 1)),
                         schemas[Len(schemas)], "off", {}).w

\* a step that leaves the workbench as w and the coroutines as ts; no
\* request ended
AsyncSuspend(w, ts) ==
    /\ steps < MaxSteps
    /\ Len(ts) <= MaxTasks
    /\ state' = w.state
    /\ employee' = w.employee
    /\ unit' = w.unit
    /\ units' = w.units
    /\ db' = w.db
    /\ tasks' = ts
    /\ steps' = steps + 1
    /\ UNCHANGED <<last, now>>

\* a step with which the request or the detached task op ended as exc
AsyncFinish(op, arg, w, exc, ts) ==
    /\ steps < MaxSteps
    /\ Len(ts) <= MaxTasks
    /\ state' = w.state
    /\ employee' = w.employee
    /\ unit' = w.unit
    /\ units' = w.units
    /\ db' = w.db
    /\ last' = [op |-> op, arg |-> arg, exc |-> exc, path |-> w.path]
    /\ tasks' = ts
    /\ steps' = steps + 1
    /\ UNCHANGED now

\* the workbench after log_in and create_new_unit, after the assign_unit of
\* the first unit, and after the start_operation on it
Serialized(schemas) ==
    LET created == Created(schemas)
        assigned == assign_unit(created, 1).w
        started == start_operation(assigned, InfoStart, "ok").w
    IN {created, assigned, started}

\* a workbench that serialized requests left, nothing in flight
AsyncInit ==
    /\ \E schemas \in {<<"staged">>, <<"composite", "simple">>} :
        \E w \in Serialized(schemas) :
            /\ state = w.state
            /\ employee = w.employee
            /\ unit = w.unit
            /\ units = w.units
            /\ db = w.db
    /\ last = [op |-> "init", arg |-> NoUnit, exc |-> None, path |-> <<>>]
    /\ steps = 0
    /\ now = 0
    /\ tasks = <<>>

\* the methods without an await run from their call to their end
AsyncLogIn ==
    LET r == log_in(W, "e1")
    IN r.w # W /\ AsyncFinish("log_in", NoUnit, r.w, r.exc, tasks)

AsyncLogOut ==
    LET r == log_out(W)
    IN r.w # W /\ AsyncFinish("log_out", NoUnit, r.w, r.exc, tasks)

AsyncAssignUnit ==
    \E uid \in 1..Len(units) :
        LET r == assign_unit(W, uid)
        IN r.w # W /\ AsyncFinish("assign_unit", uid, r.w, r.exc, tasks)

AsyncRemoveUnit ==
    LET r == remove_unit(W)
    IN r.w # W /\ AsyncFinish("remove_unit", NoUnit, r.w, r.exc, tasks)

StartOperationCall ==
    \E additional_info \in {InfoStart, InfoEnd} :
        LET r == start_operation_call(W)
        IN /\ r.pc # None
           /\ AsyncSuspend(r.w, Append(tasks, Task("start_operation", r.pc,
                                                   additional_info, NoUnit)))

StartOperationResume ==
    \E i \in 1..Len(tasks), camera \in {"ok", "fail"} :
        LET r == start_operation_resume(W, tasks[i].info, camera)
        IN /\ tasks[i].op = "start_operation"
           /\ AsyncFinish("start_operation", NoUnit, r.w, r.exc, Remove(tasks, i))

EndOperationCall ==
    \E additional_info \in {{}, InfoEnd} :
        LET r == end_operation_call(W, additional_info, FALSE)
        IN /\ r.pc # None
           /\ AsyncSuspend(r.w, Append(tasks, Task("end_operation", r.pc,
                                                   additional_info, NoUnit)))

\* camera.end and publish_file returned: the stage is ended and pushed
EndOperationStore ==
    \E i \in 1..Len(tasks), video \in Videos :
        LET r == end_operation_store(W, tasks[i].info, FALSE, video)
        IN /\ tasks[i].op = "end_operation"
           /\ tasks[i].pc = "record"
           /\ IF r.pc = None
              THEN AsyncFinish("end_operation", NoUnit, r.w, r.exc, Remove(tasks, i))
              ELSE AsyncSuspend(r.w, [tasks EXCEPT ![i].pc = r.pc])

EndOperationResume ==
    \E i \in 1..Len(tasks) :
        LET r == end_operation_resume(W)
        IN /\ tasks[i].op = "end_operation"
           /\ tasks[i].pc = "push"
           /\ AsyncFinish("end_operation", NoUnit, r.w, r.exc, Remove(tasks, i))

AssignComponentCall ==
    \E component \in 1..Len(units) :
        LET r == assign_component_to_unit_call(W, component)
        IN /\ r.w # W
           /\ IF r.pc = None
              THEN AsyncFinish("assign_component", component, r.w, r.exc, tasks)
              ELSE AsyncSuspend(r.w, Append(tasks, Task("assign_component", r.pc,
                                                        {}, component)))

AssignComponentResume ==
    \E i \in 1..Len(tasks) :
        LET r == assign_component_to_unit_resume(W)
        IN /\ tasks[i].op = "assign_component"
           /\ AsyncFinish("assign_component", tasks[i].arg, r.w, r.exc,
                          Remove(tasks, i))

\* asyncio.create_task(...) of generate_short_url_background
UploadUnitPassportCall ==
    \E print_qr \in BOOLEAN :
        LET r == upload_unit_passport_call(W, print_qr)
            suspended == Append(tasks, Task("upload_unit_passport", r.pc, {}, NoUnit))
        IN /\ r.pc # None
           /\ AsyncSuspend(r.w,
                           IF r.spawned
                           THEN Append(suspended,
                                       Task("short_url", "run", {},
                                            internal_id(units[unit])))
                           ELSE suspended)

\* asyncio.create_task(post_to_datalog(...)), then the push of the unit
UploadUnitPassportResume ==
    \E i \in 1..Len(tasks) :
        LET r == upload_unit_passport_resume(W)
            rest == Remove(tasks, i)
        IN /\ tasks[i].op = "upload_unit_passport"
           /\ AsyncFinish("upload_unit_passport", NoUnit, r.w, r.exc,
                          IF r.spawned
                          THEN Append(rest, Task("datalog", "run", {},
                                                 internal_id(units[unit])))
                          ELSE rest)

\* _bg_generate_short_url: the short url is made and written to the document
\* of the unit, or generate_short_url raises and the task ends with that
ShortUrlTask ==
    \E i \in 1..Len(tasks), outcome \in {"ok", "fail"} :
        /\ tasks[i].op = "short_url"
        /\ AsyncFinish("short_url", tasks[i].arg,
                       [W EXCEPT !.db =
                           IF outcome = "ok"
                           THEN unit_update_single_field(@, tasks[i].arg,
                                                         "passport_short_url", "url")
                           ELSE @],
                       IF outcome = "ok" THEN None ELSE ExternalError,
                       Remove(tasks, i))

\* robonomics.post_to_datalog: the hash of the transaction is written to the
\* document of the unit, or the posting raises and the task ends with that
DatalogTask ==
    \E i \in 1..Len(tasks), outcome \in {"ok", "fail"} :
        /\ tasks[i].op = "datalog"
        /\ AsyncFinish("datalog", tasks[i].arg,
                       [W EXCEPT !.db =
                           IF outcome = "ok"
                           THEN unit_update_single_field(@, tasks[i].arg,
                                                         "txn_hash", "txn")
                           ELSE @],
                       IF outcome = "ok" THEN None ELSE ExternalError,
                       Remove(tasks, i))

AsyncNext ==
    \/ AsyncLogIn
    \/ AsyncLogOut
    \/ AsyncAssignUnit
    \/ AsyncRemoveUnit
    \/ StartOperationCall
    \/ StartOperationResume
    \/ EndOperationCall
    \/ EndOperationStore
    \/ EndOperationResume
    \/ AssignComponentCall
    \/ AssignComponentResume
    \/ UploadUnitPassportCall
    \/ UploadUnitPassportResume
    \/ ShortUrlTask
    \/ DatalogTask

AsyncSpec == AsyncInit /\ [][AsyncNext]_vars

(* ------------------------------------------------------------------ *)
(* Properties                                                         *)
(* ------------------------------------------------------------------ *)

\* every call a client can make in the current state, with how it ends
Calls ==
    {[op |-> "log_in", arg |-> NoUnit, r |-> log_in(W, emp)] : emp \in Employees}
    \cup {[op |-> "log_out", arg |-> NoUnit, r |-> log_out(W)]}
    \cup {[op |-> "create_new_unit", arg |-> NoUnit,
           r |-> create_new_unit(W, schema, printer, faults)] :
            schema \in SchemaIds, printer \in {"off", "ok", "fail"}, faults \in FaultSets}
    \cup {[op |-> "assign_unit", arg |-> uid, r |-> assign_unit(W, uid)] :
            uid \in 1..Len(units)}
    \cup {[op |-> "remove_unit", arg |-> NoUnit, r |-> remove_unit(W)]}
    \cup {[op |-> "assign_component", arg |-> component,
           r |-> assign_component_to_unit(W, component, faults)] :
            component \in 1..Len(units), faults \in FaultSets}
    \cup {[op |-> "start_operation", arg |-> NoUnit,
           r |-> start_operation(W, InfoStart, camera)] :
            camera \in {"none", "ok", "fail"}}
    \cup {[op |-> "end_operation", arg |-> NoUnit,
           r |-> end_operation(W, additional_info, premature, video, faults)] :
            additional_info \in {{}, InfoEnd}, premature \in BOOLEAN,
            video \in Videos, faults \in FaultSets}
    \cup {[op |-> "upload_unit_passport", arg |-> NoUnit,
           r |-> upload_unit_passport(W, ipfs, print_qr, printer, faults)] :
            ipfs \in {"off", "ok", "fail"}, print_qr \in BOOLEAN,
            printer \in {"off", "ok", "fail"}, faults \in FaultSets}
    \cup {[op |-> "shutdown", arg |-> NoUnit, r |-> shutdown(W, video, faults)] :
            video \in Videos, faults \in FaultSets}

\* the states that hold a unit, by the specification's invariant
UnitStates ==
    {UNIT_ASSIGNED_IDLING_STATE, GATHER_COMPONENTS_STATE, PRODUCTION_STAGE_ONGOING_STATE}

\* C1: every change of WorkBench.state, the several changes of one call
\* (shutdown, log_out) taken one by one, goes from a state to one of its
\* targets in the transition table, and the state changes in no other way.
C1_TransitionsFollowTable ==
    [][/\ state' = IF last'.path = <<>> THEN state ELSE last'.path[Len(last'.path)]
       /\ \A i \in 1..Len(last'.path) :
            LET source == IF i = 1 THEN state ELSE last'.path[i - 1]
            IN last'.path[i] # source =>
                  last'.path[i] \in STATE_TRANSITION_MAP[source]]_vars

\* a shutdown has drained a production stage: three changes in one call
C1_Witness ==
    /\ last.op = "shutdown"
    /\ last.path = <<UNIT_ASSIGNED_IDLING_STATE, AUTHORIZED_IDLING_STATE,
                     AWAIT_LOGIN_STATE>>

\* the state a call is made to produce: assign_unit produces
\* GATHER_COMPONENTS for a unit it accepts whose components are not filled
\* and UNIT_ASSIGNED_IDLING for any other it accepts
Produces(c) ==
    CASE c.op = "log_in" -> {AUTHORIZED_IDLING_STATE}
      [] c.op = "log_out" -> {AWAIT_LOGIN_STATE}
      [] c.op = "assign_unit" ->
            LET target == determine_asssignment_target(units, c.arg,
                                                       {"production", "revision"})
            IN IF ~target.allowed THEN {}
               ELSE IF components_filled(units[target.unit])
               THEN {UNIT_ASSIGNED_IDLING_STATE}
               ELSE {GATHER_COMPONENTS_STATE}
      [] c.op = "remove_unit" -> {AUTHORIZED_IDLING_STATE}
      [] c.op = "assign_component" -> {UNIT_ASSIGNED_IDLING_STATE}
      [] c.op = "start_operation" -> {PRODUCTION_STAGE_ONGOING_STATE}
      [] c.op = "end_operation" -> {UNIT_ASSIGNED_IDLING_STATE}
      [] OTHER -> {}

\* C2: for every pair (current, target) that is not in the transition table,
\* the operation that would produce target, called in state current, fails
\* with StateForbidden and leaves WorkBench.state as it was.
C2_IllegalTransitionFailsStateForbidden ==
    \A c \in Calls :
        \A target \in Produces(c) :
            target \notin STATE_TRANSITION_MAP[state] =>
                /\ c.r.exc = StateForbiddenError
                /\ c.r.w.state = state

\* C3: a call that fails leaves the fields state, employee and unit of the
\* WorkBench exactly as they were.
C3_FailedCallLeavesFields ==
    \A c \in Calls :
        c.r.exc # None =>
            /\ c.r.w.state = state
            /\ c.r.w.employee = employee
            /\ c.r.w.unit = unit

\* C4: between calls the workbench references at most one employee and at
\* most one unit, and a unit only in UNIT_ASSIGNED_IDLING, GATHER_COMPONENTS
\* or PRODUCTION_STAGE_ONGOING.
C4_UnitOnlyInUnitStates ==
    /\ employee \in Employees \cup {None}
    /\ unit \in 0..Len(units)
    /\ unit # NoUnit => state \in UnitStates

\* the units with a stage that was started and never ended
StartedNotEnded(us) ==
    {uid \in 1..Len(us) :
        \E i \in 1..Len(us[uid].biography) :
            /\ us[uid].biography[i].session_start_time # None
            /\ us[uid].biography[i].session_end_time = None}

\* the changes of state of an ordered drain that starts in state s
DrainPath(s) ==
    CASE s = PRODUCTION_STAGE_ONGOING_STATE ->
            <<UNIT_ASSIGNED_IDLING_STATE, AUTHORIZED_IDLING_STATE, AWAIT_LOGIN_STATE>>
      [] s \in {UNIT_ASSIGNED_IDLING_STATE, GATHER_COMPONENTS_STATE} ->
            <<AUTHORIZED_IDLING_STATE, AWAIT_LOGIN_STATE>>
      [] s = AUTHORIZED_IDLING_STATE -> <<AWAIT_LOGIN_STATE>>
      [] OTHER -> <<>>

\* C5: from every reachable state shutdown(), when no external service
\* fails, drains in order (the ongoing stage ended prematurely, the unit
\* removed, the employee logged out) and returns in AWAIT_LOGIN with no unit
\* and no employee, and no stage is left started but not ended.
C5_ShutdownDrains ==
    \A video \in Videos :
        LET r == shutdown(W, video, {})
        IN /\ r.exc = None
           /\ r.w.state = AWAIT_LOGIN_STATE
           /\ r.w.unit = NoUnit
           /\ r.w.employee = None
           /\ r.w.path = DrainPath(state)
           /\ StartedNotEnded(r.w.units) = {}

\* C6: log_in(e) in AWAIT_LOGIN sets the employee and moves to
\* AUTHORIZED_IDLING, and the log_out() that follows returns to AWAIT_LOGIN
\* with no employee and no unit.
C6_LogInThenLogOut ==
    state = AWAIT_LOGIN_STATE =>
        \A emp \in Employees :
            LET r1 == log_in(W, emp)
                r2 == log_out(r1.w)
            IN /\ r1.exc = None
               /\ r1.w.employee = emp
               /\ r1.w.state = AUTHORIZED_IDLING_STATE
               /\ r2.exc = None
               /\ r2.w.state = AWAIT_LOGIN_STATE
               /\ r2.w.employee = None
               /\ r2.w.unit = NoUnit

\* C7: log_out() called in UNIT_ASSIGNED_IDLING, or with a unit on the bench,
\* goes through remove_unit() and then clears the employee: it ends in
\* AWAIT_LOGIN with no unit and no employee.
C7_LogOutCascades ==
    state = UNIT_ASSIGNED_IDLING_STATE \/ unit # NoUnit =>
        LET r == log_out(W)
        IN /\ r.exc = None
           /\ r.w.path = <<AUTHORIZED_IDLING_STATE, AWAIT_LOGIN_STATE>>
           /\ r.w.state = AWAIT_LOGIN_STATE
           /\ r.w.unit = NoUnit
           /\ r.w.employee = None

\* the documents of collection coll whose field key is value
Documents(d, coll, key, value) ==
    {i \in 1..Len(d[coll]) : d[coll][i][key] = value}

\* C8: create_new_unit succeeds only with an employee present and in
\* AUTHORIZED_IDLING; when it succeeds the new unit is stored (one document
\* of it in the collection, is_in_db true) and state, employee and unit
\* reference are as before; in any other state it fails and nothing is
\* created or stored.
C8_CreateNewUnit ==
    \A schema \in SchemaIds, printer \in {"off", "ok", "fail"}, faults \in FaultSets :
        LET r == create_new_unit(W, schema, printer, faults)
            uid == Len(units) + 1
        IN /\ r.exc = None =>
                /\ employee # None
                /\ state = AUTHORIZED_IDLING_STATE
                /\ r.w.state = state
                /\ r.w.employee = employee
                /\ r.w.unit = unit
                /\ Len(r.w.units) = uid
                /\ SubSeq(r.w.units, 1, Len(units)) = units
                /\ r.w.units[uid].schema = schema
                /\ r.w.units[uid].is_in_db
                /\ Cardinality(Documents(r.w.db, "units", "uuid", uid)) = 1
                /\ \A i \in Documents(r.w.db, "units", "uuid", uid) :
                        r.w.db.units[i].is_in_db
                /\ Cardinality(Documents(r.w.db, "stages", "parent_unit_uuid", uid))
                        = Schemas[schema].stages
           /\ state # AUTHORIZED_IDLING_STATE \/ employee = None =>
                /\ r.exc # None
                /\ r.w = W

\* a unit with a stage has been created and stored
C8_Witness ==
    /\ last.op = "create_new_unit"
    /\ last.exc = None
    /\ units[Len(units)].is_in_db
    /\ Documents(db, "units", "uuid", Len(units)) # {}
    /\ Documents(db, "stages", "parent_unit_uuid", Len(units)) # {}

\* the unit itself passes the validation of assign_unit
AcceptedItself(u) ==
    \/ u.status \in {"production", "revision"}
    \/ u.status = "built" /\ u.passport_ipfs_cid = None

\* C9 as stated: in AUTHORIZED_IDLING assign_unit(unit) is accepted exactly
\* when the unit is in production or revision, or built with no passport
\* cid; a unit it rejects leaves the workbench with no unit; a unit it
\* accepts is the unit the workbench references afterwards.
C9_AcceptedIffStatus ==
    state = AUTHORIZED_IDLING_STATE =>
        \A uid \in 1..Len(units) :
            LET r == assign_unit(W, uid)
            IN /\ r.exc = None <=> AcceptedItself(units[uid])
               /\ r.exc # None => r.w.unit = NoUnit
               /\ r.exc = None => r.w.unit = uid

\* the units of the component tree of uid that are in production or
\* revision, by their place in the tree (parents before their components)
InWorkInTree(uid) ==
    {i \in 1..Len(get_unit_list(units, uid)) :
        units[get_unit_list(units, uid)[i]].status \in {"production", "revision"}}

\* C9 as amended: where the transition to UNIT_ASSIGNED_IDLING is legal,
\* assign_unit(unit) passes validation exactly when the unit is in
\* production or revision, or built with no passport cid, or some unit of
\* its component tree is in production or revision; otherwise it raises
\* AssertionError and leaves the workbench as it was.  When it passes, the
\* workbench references the requested unit in the first two cases and the
\* first unit in work of the component tree in the third; from
\* AUTHORIZED_IDLING the call then succeeds.
C9_AcceptedIffTargetFound ==
    validate_state_transition(state, UNIT_ASSIGNED_IDLING_STATE) =>
        \A uid \in 1..Len(units) :
            LET r == assign_unit(W, uid)
                passes == AcceptedItself(units[uid]) \/ InWorkInTree(uid) # {}
            IN /\ r.exc = AssertionError <=> ~passes
               /\ ~passes => r.w = W
               /\ AcceptedItself(units[uid]) => r.w.unit = uid
               /\ passes /\ ~AcceptedItself(units[uid]) =>
                    \E i \in InWorkInTree(uid) :
                        /\ \A j \in InWorkInTree(uid) : i <= j
                        /\ r.w.unit = get_unit_list(units, uid)[i]
               /\ passes /\ state = AUTHORIZED_IDLING_STATE => r.exc = None

\* a published parent was requested and its component in revision assigned
C9_Witness ==
    /\ last.op = "assign_unit"
    /\ last.exc = None
    /\ unit # last.arg
    /\ units[last.arg].status = "built"
    /\ units[last.arg].passport_ipfs_cid # None
    /\ units[unit].status = "revision"

\* the unit requires components and does not hold as many as it requires
ComponentsMissing(u) ==
    /\ Schemas[u.schema].required_components_schema_ids # <<>>
    /\ Len(u.components_units) # Len(Schemas[u.schema].required_components_schema_ids)

\* C10 as stated: a successful assign_unit(unit) from AUTHORIZED_IDLING ends
\* in GATHER_COMPONENTS exactly when the requested unit is composite and its
\* components are not filled, and in UNIT_ASSIGNED_IDLING otherwise.
C10_GatherIffRequestedUnfilled ==
    state = AUTHORIZED_IDLING_STATE =>
        \A uid \in 1..Len(units) :
            LET r == assign_unit(W, uid)
            IN r.exc = None =>
                r.w.state = IF ComponentsMissing(units[uid])
                            THEN GATHER_COMPONENTS_STATE
                            ELSE UNIT_ASSIGNED_IDLING_STATE

\* C10 as amended: a successful assign_unit(unit) from AUTHORIZED_IDLING ends
\* in GATHER_COMPONENTS exactly when the unit it placed on the bench (the
\* requested unit, or the unit of its component tree chosen in its place) is
\* composite and its components are not filled, and in UNIT_ASSIGNED_IDLING
\* otherwise.
C10_GatherIffAssignedUnfilled ==
    state = AUTHORIZED_IDLING_STATE =>
        \A uid \in 1..Len(units) :
            LET r == assign_unit(W, uid)
            IN r.exc = None =>
                r.w.state = IF ComponentsMissing(units[r.w.unit])
                            THEN GATHER_COMPONENTS_STATE
                            ELSE UNIT_ASSIGNED_IDLING_STATE

\* a composite unit without its components was assigned: the bench gathers
C10_Witness ==
    /\ last.op = "assign_unit"
    /\ last.exc = None
    /\ unit = last.arg
    /\ ComponentsMissing(units[unit])
    /\ state = GATHER_COMPONENTS_STATE

\* C11: remove_unit() called in UNIT_ASSIGNED_IDLING or GATHER_COMPONENTS with
\* a unit present clears the unit reference and moves to AUTHORIZED_IDLING
\* with the employee (and the units and their documents) as before; called
\* with no unit present it fails and changes nothing.
C11_RemoveUnit ==
    LET r == remove_unit(W)
    IN /\ state \in {UNIT_ASSIGNED_IDLING_STATE, GATHER_COMPONENTS_STATE}
            /\ unit # NoUnit =>
                /\ r.exc = None
                /\ r.w.unit = NoUnit
                /\ r.w.state = AUTHORIZED_IDLING_STATE
                /\ r.w.employee = employee
                /\ r.w.units = units
                /\ r.w.db = db
       /\ unit = NoUnit =>
                /\ r.exc # None
                /\ r.w = W

\* a unit was removed while its components were being gathered
C11_Witness ==
    /\ last.op = "remove_unit"
    /\ last.exc = None
    /\ unit = NoUnit
    /\ state = AUTHORIZED_IDLING_STATE
    /\ employee # None
    /\ \E uid \in 1..Len(units) : ComponentsMissing(units[uid])

\* the stored document of unit uid is the unit as it is in memory
Persisted(w, uid) ==
    /\ w.units[uid].is_in_db
    /\ \E i \in Documents(w.db, "units", "uuid", w.units[uid].uuid) :
            w.db.units[i] = dict_data(w.units[uid])

\* C12: assign_component(component) is accepted only in GATHER_COMPONENTS
\* with a unit present.  When it attaches the component, the component is
\* appended to the unit's components_units and its featured_in_int_id is the
\* unit's internal_id; while the unit's components are not filled the call
\* returns in GATHER_COMPONENTS, and when they are filled (and the database
\* takes the writes) the unit is stored and the state is
\* UNIT_ASSIGNED_IDLING.
C12_AssignComponent ==
    \A component \in 1..Len(units), faults \in FaultSets :
        LET r == assign_component_to_unit(W, component, faults)
        IN /\ r.exc = None \/ r.w # W =>
                state = GATHER_COMPONENTS_STATE /\ unit # NoUnit
           /\ /\ unit # NoUnit
              /\ r.w.units[unit].components_units # units[unit].components_units
              => /\ r.w.units[unit].components_units
                        = Append(units[unit].components_units, component)
                 /\ r.w.units[component].featured_in_int_id
                        = internal_id(units[unit])
                 /\ r.w.unit = unit
                 /\ r.w.employee = employee
                 /\ ~components_filled(r.w.units[unit]) =>
                        /\ r.exc = None
                        /\ r.w.state = GATHER_COMPONENTS_STATE
                 /\ components_filled(r.w.units[unit]) /\ faults = {} =>
                        /\ r.exc = None
                        /\ Persisted(r.w, unit)
                        /\ Persisted(r.w, component)
                        /\ r.w.state = UNIT_ASSIGNED_IDLING_STATE

\* the last missing component has been attached to a new composite unit
C12_Witness ==
    /\ last.op = "assign_component"
    /\ last.exc = None
    /\ last.path = <<UNIT_ASSIGNED_IDLING_STATE>>
    /\ state = UNIT_ASSIGNED_IDLING_STATE
    /\ unit # NoUnit
    /\ units[unit].components_units = <<last.arg>>
    /\ units[last.arg].featured_in_int_id = internal_id(units[unit])

\* the positions of the biography entries of u that are not completed
Pending(u) == {i \in 1..Len(u.biography) : ~u.biography[i].completed}

\* the position of the pending entry of u with the lowest number
FirstPending(u) ==
    CHOOSE i \in Pending(u) :
        \A j \in Pending(u) : u.biography[i].number <= u.biography[j].number

\* C13: start_operation(info) succeeds only from UNIT_ASSIGNED_IDLING with a
\* unit and an employee present; when it succeeds the state is
\* PRODUCTION_STAGE_ONGOING and the one entry stamped with the start time,
\* the employee and info is the not completed entry with the lowest number;
\* on a unit with no pending entry the call fails and the state stays
\* UNIT_ASSIGNED_IDLING.
C13_StartOperation ==
    \A camera \in {"none", "ok", "fail"}, additional_info \in {{}, InfoStart} :
        LET r == start_operation(W, additional_info, camera)
        IN /\ r.exc = None =>
                /\ state = UNIT_ASSIGNED_IDLING_STATE
                /\ unit # NoUnit
                /\ employee # None
                /\ r.w.state = PRODUCTION_STAGE_ONGOING_STATE
                /\ r.w.unit = unit
                /\ r.w.employee = employee
                /\ Pending(units[unit]) # {}
                /\ r.w.units =
                     [units EXCEPT ![unit].biography[FirstPending(units[unit])] =
                         [@ EXCEPT !.session_start_time = "started",
                                   !.employee_name = employee,
                                   !.additional_info = additional_info]]
           /\ /\ state = UNIT_ASSIGNED_IDLING_STATE
              /\ unit # NoUnit
              /\ Pending(units[unit]) = {}
              => /\ r.exc # None
                 /\ r.w = W

\* an operation was started on a unit whose first entry is completed
C13_Witness ==
    /\ last.op = "start_operation"
    /\ last.exc = None
    /\ state = PRODUCTION_STAGE_ONGOING_STATE
    /\ unit # NoUnit
    /\ Len(units[unit].biography) >= 2
    /\ units[unit].biography[1].completed
    /\ units[unit].biography[2].session_start_time = "started"
    /\ units[unit].biography[2].employee_name = employee

\* the positions of the entries of u that were started and not ended
Started(u) ==
    {i \in 1..Len(u.biography) :
        /\ u.biography[i].session_start_time # None
        /\ u.biography[i].session_end_time = None}

\* the documents of the units other than uid
OtherDocuments(d, uid) ==
    {d.units[i] : i \in {j \in 1..Len(d.units) : d.units[j].uuid # uid}}

\* C14: end_operation(info, premature) called in PRODUCTION_STAGE_ONGOING
\* with a unit present (and no failing service) stamps session_end_time on
\* the stage that start_operation started and marks it completed, stores the
\* unit's own document and its stage documents and no document of another
\* unit, and moves to UNIT_ASSIGNED_IDLING.
C14_EndOperation ==
    state = PRODUCTION_STAGE_ONGOING_STATE /\ unit # NoUnit =>
        \A additional_info \in {{}, InfoEnd}, premature \in BOOLEAN, video \in Videos :
            LET r == end_operation(W, additional_info, premature, video, {})
            IN /\ r.exc = None
               /\ r.w.state = UNIT_ASSIGNED_IDLING_STATE
               /\ r.w.unit = unit
               /\ \A i \in Started(units[unit]) :
                    /\ r.w.units[unit].biography[i].session_end_time # None
                    /\ r.w.units[unit].biography[i].completed
               /\ Persisted(r.w, unit)
               /\ \A i \in 1..Len(r.w.units[unit].biography) :
                    \E j \in Documents(r.w.db, "stages", "id",
                                       r.w.units[unit].biography[i].id) :
                        r.w.db.stages[j] = r.w.units[unit].biography[i]
               /\ OtherDocuments(r.w.db, unit) = OtherDocuments(db, unit)

\* C15: when stopping the recording or publishing it fails during
\* end_operation, the operation is not aborted: the unit's end_operation
\* still runs with an empty list of video hashes (the started stage is ended
\* and completed), the unit is stored and the state becomes
\* UNIT_ASSIGNED_IDLING.
C15_EndOperationDespiteVideoFailure ==
    state = PRODUCTION_STAGE_ONGOING_STATE /\ unit # NoUnit =>
        \A additional_info \in {{}, InfoEnd}, premature \in BOOLEAN,
           video \in {"none", "publish_fail"} :
            LET r == end_operation(W, additional_info, premature, video, {})
            IN /\ r.exc = None
               /\ r.w.state = UNIT_ASSIGNED_IDLING_STATE
               /\ Persisted(r.w, unit)
               /\ \A i \in Started(units[unit]) :
                    /\ r.w.units[unit].biography[i].completed
                    /\ r.w.units[unit].biography[i].session_end_time # None
                    /\ r.w.units[unit].biography[i].video_hashes = <<>>

\* C16: a failure of an external collaborator during an operation other
\* than end_operation does not abort it: with a camera that fails to start,
\* start_operation still reaches PRODUCTION_STAGE_ONGOING, and with a
\* printer that fails to print the barcode, create_new_unit still stores
\* and returns the unit.
C16_ExternalFailureDoesNotAbort ==
    /\ /\ state = UNIT_ASSIGNED_IDLING_STATE
       /\ unit # NoUnit
       /\ employee # None
       /\ Pending(units[unit]) # {}
       => LET r == start_operation(W, InfoStart, "fail")
          IN /\ r.exc = None
             /\ r.w.state = PRODUCTION_STAGE_ONGOING_STATE
    /\ state = AUTHORIZED_IDLING_STATE /\ employee # None =>
          \A schema \in SchemaIds :
              LET r == create_new_unit(W, schema, "fail", {})
              IN /\ r.exc = None
                 /\ Len(r.w.units) = Len(units) + 1
                 /\ Persisted(r.w, Len(units) + 1)

\* C17: upload_unit_passport() with no unit or no employee fails and changes
\* nothing.  When it succeeds, state, employee and unit reference are as
\* before, passport_ipfs_cid holds the cid when publishing is enabled (and
\* is as before when it is not) and the unit is stored.  A failure of
\* publishing fails the call; a failure of printing does not: the call ends
\* as it does with a working printer.
C17_UploadUnitPassport ==
    \A ipfs \in {"off", "ok", "fail"}, print_qr \in BOOLEAN,
       printer \in {"off", "ok", "fail"}, faults \in FaultSets :
        LET r == upload_unit_passport(W, ipfs, print_qr, printer, faults)
        IN /\ unit = NoUnit \/ employee = None =>
                /\ r.exc # None
                /\ r.w = W
           /\ r.exc = None =>
                /\ r.w.state = state
                /\ r.w.employee = employee
                /\ r.w.unit = unit
                /\ r.w.units[unit].passport_ipfs_cid =
                        IF ipfs = "ok" THEN "cid" ELSE units[unit].passport_ipfs_cid
                /\ Persisted(r.w, unit)
           /\ unit # NoUnit /\ employee # None /\ ipfs = "fail" =>
                /\ r.exc = ExternalError
                /\ r.w = W
           /\ printer = "fail" =>
                r = upload_unit_passport(W, ipfs, print_qr, "ok", faults)
           /\ unit # NoUnit /\ employee # None /\ ipfs # "fail" /\ faults = {} =>
                r.exc = None

\* a passport was published and stored
C17_Witness ==
    /\ last.op = "upload_unit_passport"
    /\ last.exc = None
    /\ unit # NoUnit
    /\ units[unit].passport_ipfs_cid = "cid"
    /\ Persisted(W, unit)
    /\ state = UNIT_ASSIGNED_IDLING_STATE

\* C18: on a unit with a pending entry, Unit.end_operation(premature=true)
\* makes a biography of length N a biography of length N + 1: the ended
\* entry keeps its position and is completed and ended_prematurely, the
\* entry after it is a not completed, not started clone with the name the
\* ended entry had and its schema stage reference, every later entry is the
\* old one with its number increased by 1, and the numbers are contiguous;
\* with premature=false the length is N and the ended entry is completed
\* and not ended_prematurely.
C18_UnitEndOperation ==
    \A uid \in 1..Len(units), video_hashes \in {<<>>, <<"cid">>},
       additional_info \in {{}, InfoEnd} :
        Pending(units[uid]) # {} =>
            LET old == units[uid].biography
                N == Len(old)
                p == FirstPending(units[uid])
                r1 == Unit_end_operation(units[uid], video_hashes, additional_info, TRUE)
                b1 == r1.unit.biography
                r0 == Unit_end_operation(units[uid], video_hashes, additional_info, FALSE)
                b0 == r0.unit.biography
            IN /\ r1.exc = None
               /\ Len(b1) = N + 1
               /\ b1[p].id = old[p].id
               /\ b1[p].completed
               /\ b1[p].ended_prematurely
               /\ b1[p + 1].name = old[p].name
               /\ b1[p + 1].schema_stage_id = old[p].schema_stage_id
               /\ ~b1[p + 1].completed
               /\ b1[p + 1].session_start_time = None
               /\ \A i \in 1..(p - 1) : b1[i] = old[i]
               /\ \A i \in (p + 2)..(N + 1) :
                    b1[i] = [old[i - 1] EXCEPT !.number = @ + 1]
               /\ \A i \in 1..(N + 1) : b1[i].number = i - 1
               /\ r0.exc = None
               /\ Len(b0) = N
               /\ b0[p].id = old[p].id
               /\ b0[p].completed
               /\ ~b0[p].ended_prematurely
               /\ \A i \in 1..N : i # p => b0[i] = old[i]

\* a stage was ended prematurely with another stage after it
C18_Witness ==
    /\ last.op = "end_operation"
    /\ last.exc = None
    /\ \E uid \in 1..Len(units) :
        /\ Len(units[uid].biography) = 3
        /\ units[uid].biography[1].ended_prematurely
        /\ units[uid].biography[1].completed
        /\ ~units[uid].biography[2].completed
        /\ units[uid].biography[3].schema_stage_id = 2
        /\ units[uid].biography[3].number = 2

\* C19: in every reachable state every unit -- newly created, changed by
\* start_operation and end_operation, or reassembled from its documents --
\* has status built exactly when every entry of its biography is completed
\* (so a new unit of a schema with no stages is built at once, and has its
\* components filled when it requires none).
C19_BuiltIffAllCompleted ==
    /\ \A uid \in 1..Len(units) :
        /\ units[uid].status = "built" <=> Pending(units[uid]) = {}
        /\ components_schema_ids(units[uid]) = <<>> => components_filled(units[uid])
    /\ \A schema \in SchemaIds :
        Schemas[schema].stages = 0 => NewUnit(schema, 1).status = "built"

\* the places <<parent, position>> where unit cid is listed as a component
Parents(us, cid) ==
    {pl \in (1..Len(us)) \X (1..Len(us)) :
        /\ pl[2] <= Len(us[pl[1]].components_units)
        /\ us[pl[1]].components_units[pl[2]] = cid}

\* every unit is a component of at most one parent, and a component names
\* its parent in featured_in_int_id
ComponentsConsistent ==
    \A cid \in 1..Len(units) :
        /\ Cardinality(Parents(units, cid)) <= 1
        /\ \A pl \in Parents(units, cid) :
                units[cid].featured_in_int_id = internal_id(units[pl[1]])

\* a step sets featured_in_int_id at most once and attaches built units only
ComponentsStep ==
    \A cid \in 1..Len(units) :
        /\ units[cid].featured_in_int_id # NoUnit =>
                units'[cid].featured_in_int_id = units[cid].featured_in_int_id
        /\ Parents(units', cid) # Parents(units, cid) =>
                /\ units[cid].status = "built"
                /\ units[cid].featured_in_int_id = NoUnit

\* C20: after any sequence of operations every unit is listed in the
\* components_units of at most one parent and its featured_in_int_id is that
\* parent's internal_id; featured_in_int_id never changes once it is set;
\* and a unit that is attached has status built at that moment.
C20_Components == []ComponentsConsistent /\ [][ComponentsStep]_vars

\* the first of two components has been attached to a unit
C20_Witness ==
    /\ last.op = "assign_component"
    /\ last.exc = None
    /\ state = GATHER_COMPONENTS_STATE
    /\ unit # NoUnit
    /\ Parents(units, last.arg) = {<<unit, 1>>}
    /\ units[last.arg].status = "built"
    /\ units[last.arg].featured_in_int_id = internal_id(units[unit])

\* component cid is listed in the components_units of unit uid
Attached(us, uid, cid) ==
    \E i \in 1..Len(us[uid].components_units) : us[uid].components_units[i] = cid

\* C21: assigning to a unit a component that is already attached to it raises
\* a ValueError and leaves the heap as it was (the component attached exactly
\* once), both when the first assignment filled the unit's requirements and
\* when further components are still required.
C21_AssignTwiceRaises ==
    \A uid \in 1..Len(units), cid \in 1..Len(units) :
        Attached(units, uid, cid) =>
            LET r == Unit_assign_component(units, uid, cid)
            IN /\ r.exc # None
               /\ r.units = units
               /\ Cardinality(Parents(r.units, cid)) = 1

\* the units of the component tree of unit uid, the unit itself included
Tree(us, uid) ==
    {get_unit_list(us, uid)[i] : i \in 1..Len(get_unit_list(us, uid))}

\* no unit of the component tree of uid got a new stage since it was stored
Unmodified(us, uid) ==
    \A c \in Tree(us, uid) :
        us[c].is_in_db =>
            \A j \in 1..Len(us[c].biography) : us[c].biography[j].is_in_db

\* collections d hold exactly one document of unit c and exactly one of each
\* stage of its biography
StoredOnce(us, d, c) ==
    /\ Cardinality(Documents(d, "units", "uuid", us[c].uuid)) = 1
    /\ \A j \in 1..Len(us[c].biography) :
            Cardinality(Documents(d, "stages", "id", us[c].biography[j].id)) = 1

\* C22: upload_unit called twice, or three times, on a unit that is not
\* modified ends with exactly one stored document of the unit and of every
\* unit of its component tree and exactly one stored document of each of
\* their stages; the repeated calls send no request and change nothing.
C22_UploadUnitIdempotent ==
    \A uid \in 1..Len(units) :
        Unmodified(units, uid) =>
            LET st1 == upload_unit(Sync(units, db, {}), uid)
                st2 == upload_unit(Sync(st1.units, st1.db, {}), uid)
                st3 == upload_unit(Sync(st2.units, st2.db, {}), uid)
            IN /\ st1.exc = None
               /\ st2.exc = None
               /\ st2.writes = 0
               /\ st2.units = st1.units
               /\ st2.db = st1.db
               /\ st3 = st2
               /\ \A c \in Tree(units, uid) :
                    /\ st2.units[c].is_in_db
                    /\ StoredOnce(st2.units, st2.db, c)

\* a unit with a stage and a component was uploaded: both are stored once
C22_Witness ==
    /\ last.op = "upload_unit"
    /\ last.exc = None
    /\ units[last.arg].biography # <<>>
    /\ units[last.arg].components_units # <<>>
    /\ \A c \in Tree(units, last.arg) :
            units[c].is_in_db /\ StoredOnce(units, db, c)
    /\ upload_unit(Sync(units, db, {}), last.arg).writes = 0

\* collections d hold a document of unit c that equals the unit as it is in
\* memory, and one of each of its stages that equals the stage
Synchronized(us, d, c) ==
    /\ \E i \in Documents(d, "units", "uuid", us[c].uuid) :
            d.units[i] = dict_data(us[c])
    /\ \A j \in 1..Len(us[c].biography) :
            \E k \in Documents(d, "stages", "id", us[c].biography[j].id) :
                d.stages[k] = us[c].biography[j]

\* C23: update_unit(unit) handles the components of the unit and its stages
\* as upload_unit does (a stage that is not stored is inserted and flagged, a
\* stored one updated) and writes the unit's document whether the unit is
\* flagged as stored or not: when it returns, the unit, every unit of its
\* component tree and all their stages have stored documents equal to the
\* values in memory, whether or not the unit had a document before.
C23_UpdateUnitSynchronizes ==
    \A uid \in 1..Len(units) :
        LET st == update_unit(Sync(units, db, {}), uid)
        IN /\ st.exc = None
           /\ \A j \in 1..Len(st.units[uid].biography) :
                st.units[uid].biography[j].is_in_db
           /\ \A c \in Tree(units, uid) : Synchronized(st.units, st.db, c)

RECURSIVE Listed(_, _, _)
\* the internal ids reached from ids through the components_internal_ids of
\* the unit documents of d, within n levels
Listed(d, ids, n) ==
    IF n = 0
    THEN ids
    ELSE Listed(d,
                ids \cup {d.units[i].components_internal_ids[k] :
                            <<i, k>> \in {p \in (1..Len(d.units)) \X (1..MaxUnits) :
                                /\ d.units[p[1]].internal_id \in ids
                                /\ p[2] <= Len(d.units[p[1]].components_internal_ids)}},
                n - 1)

\* every unit of the stored component tree of id has a document, and the
\* schema of that document is in the collection schemas
StoredTreeComplete(d, schemas, id) ==
    \A c \in Listed(d, {id}, Len(d.units)) :
        /\ Documents(d, "units", "internal_id", c) # {}
        /\ \A i \in Documents(d, "units", "internal_id", c) :
                d.units[i].schema_id \in schemas

\* C24: get_unit_by_internal_id(id) raises UnitNotFoundError when no unit
\* document has that internal id, when a component listed at any depth has
\* no document and when a schema referred to is absent, and returns no unit
\* then; otherwise it returns the unit of that id with all the components
\* its document lists and a biography ordered by number.
C24_GetUnitByInternalId ==
    \A schemas \in SchemaCollections, id \in 1..(Len(units) + 1) :
        LET r == get_unit_by_internal_id(db, schemas, id)
        IN /\ r.exc \in {None, UnitNotFoundError}
           /\ r.exc = None <=> StoredTreeComplete(db, schemas, id)
           /\ r.exc # None => r.unit = NoUnit
           /\ r.exc = None =>
                /\ internal_id(r.unit) = id
                /\ \E i \in Documents(db, "units", "internal_id", id) :
                        r.unit.components_units = db.units[i].components_internal_ids
                /\ \A i \in 1..Len(r.unit.components_units) :
                        get_unit_by_internal_id(db, schemas,
                                                r.unit.components_units[i]).exc = None
                /\ \A i, j \in 1..Len(r.unit.biography) :
                        i < j => r.unit.biography[i].number
                                    <= r.unit.biography[j].number

\* the stored document of a unit lists a component that has no document:
\* the unit is not found
C24_Witness ==
    /\ last.op = "update_unit"
    /\ Documents(db, "units", "internal_id", last.arg) # {}
    /\ \E c \in Listed(db, {last.arg}, 1) :
            Documents(db, "units", "internal_id", c) = {}
    /\ get_unit_by_internal_id(db, SchemaIds, last.arg).exc = UnitNotFoundError

\* C25: for every unit whose component tree is synchronized with the
\* database, get_unit_by_internal_id(unit.internal_id) returns a unit equal
\* to it in every field -- uuid, internal_id, schema, status, biography,
\* components_units, featured_in_int_id, the passport fields and is_in_db --
\* and so for each of its components.
C25_RoundTrip ==
    \A uid \in 1..Len(units) :
        (\A c \in Tree(units, uid) : Synchronized(units, db, c)) =>
            \A c \in Tree(units, uid) :
                LET r == get_unit_by_internal_id(db, SchemaIds, internal_id(units[c]))
                IN /\ r.exc = None
                   /\ r.unit = units[c]

\* five minutes, in ticks of the clock
FiveMinutes == 5 * TicksPerMinute

\* what a stage that has a start time adds at time t: its end time, or t
\* when it has none, minus its start time
Contribution(stage, t) ==
    (IF stage.session_end_time # None THEN strptime(stage.session_end_time) ELSE t)
    - strptime(stage.session_start_time)

RECURSIVE SumOfContributions(_, _, _)
\* the sum of the contributions of the stages of u at the positions S
SumOfContributions(u, S, t) ==
    IF S = {}
    THEN 0
    ELSE LET i == CHOOSE i \in S : TRUE
         IN Contribution(u.biography[i], t) + SumOfContributions(u, S \ {i}, t)

\* unit u without the stage at position i of its biography
WithoutStage(u, i) ==
    [u EXCEPT !.biography = SubSeq(@, 1, i - 1) \o SubSeq(@, i + 1, Len(@))]

\* C26: total_assembly_time is the sum, over the stages that have a start
\* time, of the end time (the current time for a stage with no end time)
\* minus the start time; a stage started at T0 and ended at T0 + 5 minutes
\* adds exactly 5 minutes to it, and a stage with no start time adds nothing,
\* whatever the other stages are.
C26_TotalAssemblyTime ==
    \A uid \in 1..Len(units) :
        LET u == units[uid]
            total == total_assembly_time(u, now)
        IN /\ total = SumOfContributions(
                        u,
                        {i \in 1..Len(u.biography) :
                            u.biography[i].session_start_time # None},
                        now)
           /\ \A i \in 1..Len(u.biography) :
                /\ u.biography[i].session_start_time = None =>
                        total = total_assembly_time(WithoutStage(u, i), now)
                /\ /\ u.biography[i].session_start_time # None
                   /\ u.biography[i].session_end_time # None
                   /\ strptime(u.biography[i].session_end_time)
                        = strptime(u.biography[i].session_start_time) + FiveMinutes
                   => total = total_assembly_time(WithoutStage(u, i), now)
                                + FiveMinutes

\* the total was read, some time later, of a unit with a stage that took
\* five minutes, a stage that is running and a stage that was not started
C26_Witness ==
    /\ last.op = "total_assembly_time"
    /\ last.result = total_assembly_time(units[last.arg], now)
    /\ last.result > FiveMinutes
    /\ \E i, j, k \in 1..Len(units[last.arg].biography) :
        /\ units[last.arg].biography[i].session_end_time # None
        /\ units[last.arg].biography[i].session_start_time # None
        /\ strptime(units[last.arg].biography[i].session_end_time)
            = strptime(units[last.arg].biography[i].session_start_time) + FiveMinutes
        /\ now > strptime(units[last.arg].biography[i].session_end_time)
        /\ units[last.arg].biography[j].session_start_time # None
        /\ units[last.arg].biography[j].session_end_time = None
        /\ units[last.arg].biography[k].session_start_time = None

\* the earliest of the rejection rules (2) to (5) that the assignment of
\* component cid to unit uid violates, None when it violates none
EarliestViolation(us, uid, cid) ==
    IF \A i \in 1..Len(components_schema_ids(us[uid])) :
            components_schema_ids(us[uid])[i] # us[cid].schema
    THEN ValueError_NotAComponent
    ELSE IF \E i \in 1..Len(us[uid].components_units) :
            us[us[uid].components_units[i]].schema = us[cid].schema
    THEN ValueError_AlreadyAssigned
    ELSE IF us[cid].status # "built"
    THEN ValueError_NotCompleted
    ELSE IF /\ us[cid].featured_in_int_id # NoUnit
            /\ us[cid].featured_in_int_id # internal_id(us[uid])
    THEN ValueError_AlreadyUsed
    ELSE None

\* C27: Unit.assign_component reports the earliest violated rule in the order
\* (2) schema id not required, (3) a component of that schema id already
\* attached, (4) component not built, (5) component used by another parent;
\* and a rejected assignment leaves components_units of the unit and
\* featured_in_int_id of the component as they were.
C27_RejectionOrder ==
    \A uid \in 1..Len(units), cid \in 1..Len(units) :
        LET r == Unit_assign_component(units, uid, cid)
        IN /\ r.exc = EarliestViolation(units, uid, cid)
           /\ r.exc # None => r.units = units

\* the entry at position i of the biography (counted from 0) has number i
Contiguous(u) == \A i \in 1..Len(u.biography) : u.biography[i].number = i - 1

\* the stage documents of unit uid in collections d are those of the stages
\* of its biography, one each, with the numbers the stages have
NumbersStored(us, d, uid) ==
    LET docs == Documents(d, "stages", "parent_unit_uuid", us[uid].uuid)
    IN /\ Cardinality(docs) = Len(us[uid].biography)
       /\ \A i \in 1..Len(us[uid].biography) :
            \E k \in docs :
                /\ d.stages[k].id = us[uid].biography[i].id
                /\ d.stages[k].number = us[uid].biography[i].number

\* unit uid of the heap as u: its numbers are contiguous, and once it is
\* synchronized (update_unit) its stage documents carry them
NumberedAndStored(uid, u) ==
    LET st == update_unit(Sync([units EXCEPT ![uid] = u], db, {}), uid)
    IN /\ Contiguous(u)
       /\ st.exc = None
       /\ NumbersStored(st.units, st.db, uid)

\* C28: after any sequence of start_operation and end_operation calls,
\* premature or not, the biography entry at position i has number i (the
\* numbers are 0..N-1 with no gap and no duplicate), and once the unit is
\* synchronized again its stage documents carry the same numbers: a new
\* unit is numbered so, and start_operation and end_operation keep it so.
C28_NumbersContiguous ==
    /\ \A schema \in SchemaIds : Contiguous(NewUnit(schema, 1))
    /\ \A uid \in 1..Len(units) :
            /\ NumberedAndStored(uid, units[uid])
            /\ NumberedAndStored(
                    uid, Unit_start_operation(units[uid], "e1", InfoStart).unit)
            /\ \A premature \in BOOLEAN :
                    NumberedAndStored(
                        uid,
                        Unit_end_operation(units[uid], <<>>, InfoEnd, premature).unit)

\* a stored unit was ended prematurely and synchronized: the document of its
\* second stage carries the number the stage was given
C28_Witness ==
    /\ last.op = "push_unit"
    /\ last.exc = None
    /\ Len(units[last.arg].biography) = 3
    /\ units[last.arg].biography[1].ended_prematurely
    /\ units[last.arg].biography[3].schema_stage_id = 2
    /\ NumbersStored(units, db, last.arg)
    /\ \E k \in Documents(db, "stages", "id", units[last.arg].biography[3].id) :
            /\ db.stages[k].number = 2
            /\ k < Len(db.stages)

\* what components_filled stands for: every required schema id has an
\* attached component of that schema and no two attached components share
\* a schema id
RequirementsMatched(us, uid) ==
    LET required == components_schema_ids(us[uid])
        attached == us[uid].components_units
    IN /\ \A i \in 1..Len(required) :
            \E j \in 1..Len(attached) : us[attached[j]].schema = required[i]
       /\ \A j, k \in 1..Len(attached) :
            j # k => us[attached[j]].schema # us[attached[k]].schema

\* a heap with a new unit of the schema and, for each entry of its list of
\* required ids, a built component of that schema that no unit holds
Kit(schema) ==
    LET required == Schemas[schema].required_components_schema_ids
    IN <<NewUnit(schema, 1)>> \o
       List([i \in 1..Len(required) |->
                [NewUnit(required[i], i + 1) EXCEPT !.status = "built"]])

\* some sequence of accepted assign_component calls with components cids
\* leaves unit uid of heap us with components_filled
RECURSIVE CanBeFilled(_, _, _)
CanBeFilled(us, uid, cids) ==
    \/ components_filled(us[uid])
    \/ \E cid \in cids :
            LET r == Unit_assign_component(us, uid, cid)
            IN /\ r.exc = None
               /\ Attached(r.units, uid, cid)
               /\ CanBeFilled(r.units, uid, cids \ {cid})

\* C29: components_filled holds exactly when every required schema id has a
\* matching attached component and no two attached components share a
\* schema id; and a unit of any schema can be brought to components_filled
\* by accepted assign_component calls.
C29_ComponentsFilled ==
    /\ \A uid \in 1..Len(units) :
            components_filled(units[uid]) <=> RequirementsMatched(units, uid)
    /\ \A schema \in SchemaIds :
            CanBeFilled(Kit(schema), 1, 2..Len(Kit(schema)))

\* no unit and no production stage that is flagged is_in_db in heap before
\* has lost the flag in heap after: the unit is flagged there, and the stage
\* (the one with the same id) is in the biography and flagged
NoReversion(before, after) ==
    \A uid \in 1..Len(before) :
        /\ before[uid].is_in_db => after[uid].is_in_db
        /\ \A i \in 1..Len(before[uid].biography) :
                before[uid].biography[i].is_in_db =>
                    \E j \in 1..Len(after[uid].biography) :
                        /\ after[uid].biography[j].id = before[uid].biography[i].id
                        /\ after[uid].biography[j].is_in_db

\* upload_unit, update_unit, upload_production_stage and a reload of any
\* unit of the heap, with or without a request that fails, revert no flag;
\* and every stored document is flagged
NoCallReverts ==
    /\ \A k \in 1..Len(db.units) : db.units[k].is_in_db
    /\ \A k \in 1..Len(db.stages) : db.stages[k].is_in_db
    /\ \A uid \in 1..Len(units), faults \in {{}, {1}, {2}} :
        LET st == Sync(units, db, faults)
            r == get_unit_by_internal_id(db, SchemaIds, internal_id(units[uid]))
        IN /\ NoReversion(units, upload_unit(st, uid).units)
           /\ NoReversion(units, update_unit(st, uid).units)
           /\ \A i \in 1..Len(units[uid].biography) :
                NoReversion(units, upload_production_stage(st, uid, i).units)
           /\ r.exc = None => NoReversion(units, [units EXCEPT ![uid] = r.unit])

\* C30: is_in_db is monotonic for every unit and every production stage:
\* no step (start_operation, end_operation, assign_component, push_unit,
\* upload_unit, update_unit, a reload through get_unit_by_internal_id)
\* takes a flag that is true back to false, and neither does a call of
\* upload_unit, update_unit, upload_production_stage or a reload made in
\* any state that is reached.
C30_IsInDbMonotonic == [][NoReversion(units, units')]_vars /\ []NoCallReverts

\* a stored unit was ended prematurely, synchronized and then reloaded: the
\* reassembled unit and its three stages are flagged
C30_Witness ==
    /\ last.op = "get_unit_by_internal_id"
    /\ units[last.arg].is_in_db
    /\ Len(units[last.arg].biography) = 3
    /\ \A i \in 1..3 : units[last.arg].biography[i].is_in_db

\* C33: in every state the serialized calls of the workbench reach, an
\* employee is logged in exactly when the state is not AWAIT_LOGIN, and a
\* unit is assigned whenever the state is UNIT_ASSIGNED_IDLING,
\* GATHER_COMPONENTS or PRODUCTION_STAGE_ONGOING.
C33_EmployeeAndUnitPresent ==
    /\ employee # None <=> state # AWAIT_LOGIN_STATE
    /\ state \in UnitStates => unit # NoUnit

\* C34: every biography entry that is completed has a session_start_time,
\* and WorkBench.end_operation takes effect only in PRODUCTION_STAGE_ONGOING:
\* called in another state it completes no stage and leaves the workbench
\* as it was.
C34_CompletedOnlyAfterStarted ==
    /\ \A uid \in 1..Len(units) :
        \A i \in 1..Len(units[uid].biography) :
            units[uid].biography[i].completed =>
                units[uid].biography[i].session_start_time # None
    /\ state # PRODUCTION_STAGE_ONGOING_STATE =>
        \A additional_info \in {{}, InfoEnd}, premature \in BOOLEAN,
           video \in Videos, faults \in FaultSets :
            LET r == end_operation(W, additional_info, premature, video, faults)
            IN /\ r.w.units = units
               /\ r.w.state = state

\* C35: a call made in GATHER_COMPONENTS ends in UNIT_ASSIGNED_IDLING only
\* if it is an assign_component that leaves the unit with components_filled;
\* in UNIT_ASSIGNED_IDLING and PRODUCTION_STAGE_ONGOING the assigned unit
\* has components_filled; and start_operation and end_operation change no
\* unit whose components are missing.
C35_GatherLeftOnlyWhenFilled ==
    /\ state = GATHER_COMPONENTS_STATE =>
        \A c \in Calls :
            c.r.w.state = UNIT_ASSIGNED_IDLING_STATE =>
                /\ c.op = "assign_component"
                /\ components_filled(c.r.w.units[c.r.w.unit])
    /\ state \in {UNIT_ASSIGNED_IDLING_STATE, PRODUCTION_STAGE_ONGOING_STATE} =>
        /\ unit # NoUnit
        /\ components_filled(units[unit])
    /\ \A c \in Calls :
        (c.op \in {"start_operation", "end_operation"} /\ c.r.w.units # units) =>
            components_filled(units[unit])

\* C36: while the state is GATHER_COMPONENTS or PRODUCTION_STAGE_ONGOING no
\* call replaces the assigned unit: a call that leaves the workbench in the
\* state it was in leaves the unit reference as it was, and so does every
\* assign_unit, whether it returns or raises.
C36_UnitKeptWhileBusy ==
    state \in {GATHER_COMPONENTS_STATE, PRODUCTION_STAGE_ONGOING_STATE} =>
        \A c \in Calls :
            (c.r.w.state = state \/ c.op = "assign_unit") => c.r.w.unit = unit

\* C31: when a request to MongoDB fails in the middle of the synchronisation
\* of a unit (the upload of a unit that is not stored, the update of one
\* that is), the next upload_unit or update_unit of the unit puts it right:
\* it returns, and the collections hold exactly one document of the unit
\* and exactly one of each stage of its biography.
C31_FaultCorrectedByNextSync ==
    \A uid \in 1..Len(units) :
        \A fault \in 1..(Len(units[uid].biography) + 1) :
            LET st1 == push_unit(Sync(units, db, {fault}), uid, FALSE)
                up == upload_unit(Sync(st1.units, st1.db, {}), uid)
                upd == update_unit(Sync(st1.units, st1.db, {}), uid)
            IN st1.exc # None =>
                \/ up.exc = None /\ StoredOnce(up.units, up.db, uid)
                \/ upd.exc = None /\ StoredOnce(upd.units, upd.db, uid)

\* the stored document of unit c names parent p in featured_in_int_id, and
\* so does the unit reassembled from it
ParentStored(us, d, c, p) ==
    LET r == get_unit_by_internal_id(d, SchemaIds, internal_id(us[c]))
    IN /\ \A i \in Documents(d, "units", "uuid", us[c].uuid) :
            d.units[i].featured_in_int_id = internal_id(us[p])
       /\ r.exc = None
       /\ r.unit.featured_in_int_id = internal_id(us[p])

\* C37: when assign_component attaches a component that is stored to a
\* parent and the parent is then persisted (upload_unit for a parent that is
\* not stored, update_unit for one that is), the stored document of the
\* component names the parent in featured_in_int_id, and so does the
\* component reloaded with get_unit_by_internal_id, which another parent
\* therefore rejects.
C37_SingleParentPersisted ==
    \A p \in 1..Len(units), c \in 1..Len(units) :
        LET r == Unit_assign_component(units, p, c)
            st == IF units[p].is_in_db
                  THEN update_unit(Sync(r.units, db, {}), p)
                  ELSE upload_unit(Sync(r.units, db, {}), p)
        IN (/\ units[c].is_in_db
            /\ Documents(db, "units", "uuid", units[c].uuid) # {}
            /\ ~Attached(units, p, c)
            /\ r.exc = None
            /\ Attached(r.units, p, c)) =>
                /\ st.exc = None
                /\ ParentStored(st.units, st.db, c, p)

\* the detached tasks of upload_unit_passport
Detached == {"short_url", "datalog"}

\* the field a detached task writes
FieldOf(op) == IF op = "short_url" THEN "passport_short_url" ELSE "txn_hash"

\* the fields of the documents of units in which d2 is not d
ChangedFields(d, d2) ==
    {x \in (1..Len(d2.units)) \X {"uuid", "internal_id", "schema_id", "status",
                                  "components_internal_ids", "featured_in_int_id",
                                  "passport_short_url", "passport_ipfs_cid",
                                  "is_in_db", "txn_hash"} :
        LET i == x[1]
            f == x[2]
        IN IF i > Len(d.units)
           THEN f \in DOMAIN d2.units[i]
           ELSE (f \in DOMAIN d.units[i]) # (f \in DOMAIN d2.units[i])
                \/ (f \in DOMAIN d.units[i] /\ d.units[i][f] # d2.units[i][f])}

\* the step is the end of detached task i
DetachedEnds(i) == tasks[i].op \in Detached /\ tasks' = Remove(tasks, i)

\* the step is the return of the upload_unit_passport suspended as task i
UploadReturns(i) ==
    /\ tasks[i].op = "upload_unit_passport"
    /\ last'.op = "upload_unit_passport"
    /\ \E rest \in {Remove(tasks, i)} :
        tasks' = rest \/ (tasks' # <<>> /\ SubSeq(tasks', 1, Len(tasks') - 1) = rest)

\* C32: the detached tasks that upload_unit_passport starts (the short link,
\* the datalog posting) are fire and forget.  upload_unit_passport returns
\* while they are still to run, with a result that is never the failure of a
\* task; a task that fails changes nothing of the workbench or the database;
\* one that succeeds changes at most one field of the stored document of its
\* unit, passport_short_url or txn_hash, and never the state, the employee or
\* the unit of the workbench.
C32_DetachedFireAndForget ==
    /\ [][\A i \in 1..Len(tasks) :
            /\ DetachedEnds(i) =>
                    /\ state' = state /\ employee' = employee /\ unit' = unit
                    /\ units' = units
                    /\ db'.stages = db.stages
                    /\ Len(db'.units) = Len(db.units)
                    /\ Cardinality(ChangedFields(db, db')) <= 1
                    /\ \A x \in ChangedFields(db, db') :
                        /\ x[2] = FieldOf(tasks[i].op)
                        /\ db.units[x[1]].internal_id = tasks[i].arg
                    /\ last'.op = tasks[i].op
                    /\ (last'.exc # None => db' = db)
            /\ UploadReturns(i) =>
                    /\ \A j \in 1..Len(tasks) :
                        tasks[j].op \in Detached =>
                            \E k \in 1..Len(tasks') : tasks'[k] = tasks[j]
                    /\ last'.exc \in {None, AttributeError}
                    /\ (unit # NoUnit /\ units'[unit].passport_ipfs_cid # None) =>
                        /\ tasks' # <<>>
                        /\ tasks'[Len(tasks')].op = "datalog"]_vars
    /\ [](last.op = "upload_unit_passport" => last.exc # ExternalError)

\* the datalog task wrote the hash of the transaction after
\* upload_unit_passport had returned, and the short link is still to be made
C32_Witness ==
    /\ last.op = "datalog"
    /\ last.exc = None
    /\ \E i \in 1..Len(db.units) :
        /\ "txn_hash" \in DOMAIN db.units[i]
        /\ db.units[i].txn_hash = "txn"
    /\ \E j \in 1..Len(tasks) : tasks[j].op = "short_url"

\* C38: no update is lost between the detached short-link task and the
\* synchronization of the unit: once the task has written passport_short_url
\* into the stored document of the unit, no later step (the push at the end
\* of upload_unit_passport, the push of a later end_operation), in any
\* interleaving, leaves that stored field empty.
C38_ShortUrlNeverLost ==
    [][\A i \in 1..Len(db.units) :
            db.units[i].passport_short_url # None =>
                /\ i <= Len(db'.units)
                /\ db'.units[i].passport_short_url # None]_vars

\* the step is the end of the request suspended as task i
RequestEnds(i, op) == tasks[i].op = op /\ tasks' = Remove(tasks, i) /\ last'.op = op

\* the stages of the unit on the workbench that are completed
CompletedStages(us, u) ==
    {j \in 1..Len(us[u].biography) : us[u].biography[j].completed}

\* C39: of two end_operation requests for the same ongoing stage that
\* interleave at the awaits of WorkBench.end_operation, one completes one
\* stage of the unit and makes the one transition to UNIT_ASSIGNED_IDLING,
\* and the other, which ends when the stage is no longer going on, fails
\* with StateForbiddenError and leaves the biography as it is; likewise of two
\* interleaved start_operation requests the one that resumes when the stage
\* is already going on fails and does not stamp the pending stage again.
C39_InterleavedRequestsActOnce ==
    [][\A i \in 1..Len(tasks) :
            /\ (RequestEnds(i, "end_operation")
                /\ state = UNIT_ASSIGNED_IDLING_STATE
                /\ unit # NoUnit
                /\ last.op = "end_operation"
                /\ last.exc = None) =>
                    /\ last'.exc = StateForbiddenError
                    /\ state' = state
                    /\ units' = units
            /\ (RequestEnds(i, "start_operation")
                /\ state = PRODUCTION_STAGE_ONGOING_STATE) =>
                    /\ last'.exc \in {StateForbiddenError, ExternalError}
                    /\ state' = state
                    /\ units' = units
            /\ (RequestEnds(i, "end_operation")
                /\ state = PRODUCTION_STAGE_ONGOING_STATE
                /\ unit # NoUnit
                /\ last'.exc = None) =>
                    /\ state' = UNIT_ASSIGNED_IDLING_STATE
                    /\ Cardinality(CompletedStages(units', unit)) = 1]_vars

\* the unit reference is set exactly in the states that hold a unit
UnitMatchesState(s, u) == (u # NoUnit) <=> (s \in UnitStates)

\* the step is the resumption of the request suspended as task i, with its
\* state transition
TransitionResumes(i) ==
    /\ tasks[i].op \in {"start_operation", "end_operation", "assign_component"}
    /\ tasks' = Remove(tasks, i)
    /\ state' # state

\* C40: when a request is suspended at an await (the persistence of
\* assign_component_to_unit and end_operation, the camera start of
\* start_operation) and log_out, remove_unit, assign_unit or log_in runs before
\* it resumes, the resumed request makes no state transition against the
\* state or the unit reference that changed in between: its transition
\* follows the table and, from a workbench whose unit reference matches its
\* state, leaves the unit reference set exactly in UNIT_ASSIGNED_IDLING,
\* GATHER_COMPONENTS and PRODUCTION_STAGE_ONGOING.
C40_ResumePreservesInvariant ==
    [][\A i \in 1..Len(tasks) :
            (TransitionResumes(i) /\ UnitMatchesState(state, unit)) =>
                /\ state' \in STATE_TRANSITION_MAP[state]
                /\ UnitMatchesState(state', unit')]_vars

====
